---- MODULE Spec2Model ----
(***************************************************************************)
(* Model of Jackify's automated prefix service                             *)
(* (src/jackify/backend/services/automated_prefix_service.py): the         *)
(* shortcut store kept in shortcuts.vdf, the compatibility mapping kept in *)
(* config.vdf / localconfig.vdf, and the prefix creation workflow.         *)
(*                                                                         *)
(* Strings are sequences of chunks; a chunk stands for a run of characters *)
(* that no operation of the code splits.  Concatenation is \o, so          *)
(* quoting, stripping, substring and suffix tests are computed on the      *)
(* sequence as the Python code computes them on the characters.            *)
(***************************************************************************)
EXTENDS Integers, Sequences, FiniteSets, TLC

VARIABLES
    shortcuts,    \* shortcuts.vdf: the 'shortcuts' dict, in file order, as <<[k, v]>>
    config,       \* config.vdf: its lines
    localconfig,  \* localconfig.vdf: its lines
    wf,           \* run_complete_workflow: position, arguments, locals, result
    last,         \* the last call made: operation, arguments, return value
    pre,          \* the three files as they were before the last call
    calls,        \* the number of calls made so far
    userdata      \* whether a Steam user directory is found; without one there
                  \* is no shortcuts.vdf

vars == <<shortcuts, config, localconfig, wf, last, pre, calls, userdata>>

-----------------------------------------------------------------------------
(* Bounds of the model *)

MaxInit == 2        \* entries in the initial shortcuts.vdf
MaxCalls == 2       \* calls (of an operation, or of the workflow) in one behaviour
Window == 8         \* identifiers taken on each side of a boundary of the 32-bit range
MaxTimeout == 5     \* the largest timeout wait_for_prefix_completion is called with

-----------------------------------------------------------------------------
(* Strings *)

DQ == "<dq>"        \* the double quote character
SP == " "           \* a blank

\* f'"{s}"'
Quote(s) == <<DQ>> \o s \o <<DQ>>

RECURSIVE LStrip(_, _)
LStrip(s, c) == IF s # <<>> /\ Head(s) = c THEN LStrip(Tail(s), c) ELSE s

RECURSIVE RStrip(_, _)
RStrip(s, c) ==
    IF s # <<>> /\ s[Len(s)] = c THEN RStrip(SubSeq(s, 1, Len(s) - 1), c) ELSE s

\* s.strip('"')
StripQuotes(s) == RStrip(LStrip(s, DQ), DQ)

\* s.strip()
StripBlanks(s) == RStrip(LStrip(s, SP), SP)

\* sub in s
Contains(sub, s) ==
    \E i \in 1..(Len(s) - Len(sub) + 1) : SubSeq(s, i, i + Len(sub) - 1) = sub

\* s.endswith(suf)
EndsWith(s, suf) ==
    /\ Len(suf) <= Len(s)
    /\ SubSeq(s, Len(s) - Len(suf) + 1, Len(s)) = suf

-----------------------------------------------------------------------------
(* Names, paths and the other strings of the model *)

Foo == <<"Foo">>
FooBar == <<"Foo", "Bar">>
Names == {Foo, FooBar}
CallNames == {Foo}

ModOrganizerExe == <<"/real/", "ModOrganizer", ".exe">>
OtherExe == <<"/b/", "Other", ".exe">>
FinalExes == {ModOrganizerExe, OtherExe}
RetargetExes == {ModOrganizerExe}

RealDir == <<"/real/", "dir">>
DifferentDir == <<"/different/", "dir">>
Dirs == {RealDir, DifferentDir}
FinalDirs == {RealDir}

\* Path.home() / "Jackify/temp_prefix_creation.bat" and its parent
BatchPath == <<"/home/u/", "Jackify", "/", "temp_", "prefix_creation", ".bat">>
BatchDir == <<"/home/u/", "Jackify">>

\* scripts_dir / f"prefix_creation_{shortcut_name}_{timestamp}.bat"
OldBatchPath ==
    <<"/home/u/", "Jackify", "/", "scripts/", "prefix_creation", "_", "Foo", "_", "1", ".bat">>

\* the literals 'prefix_creation_', '.bat' and '.bat"'
Marker == <<"prefix_creation", "_">>
DotBat == <<".bat">>
DotBatQ == <<".bat", DQ>>

ProtonExperimental == <<"proton_experimental">>
Empty == <<>>
NoTags == <<>>
None == <<"<None>">>

-----------------------------------------------------------------------------
(* Identifier derivation *)

\* TLC's integers are 32 bits wide: an unsigned 32-bit value is kept as two
\* 16-bit limbs, a signed one (-2^31 .. 2^31-1) as an integer
Limb == 2^16
HalfLimb == 2^15
U32(hi, lo) == [hi |-> hi, lo |-> lo]

\* zlib.crc32 of the UTF-8 bytes of the concatenation, for the strings of the model
Crc32(s) ==
    CASE s = ModOrganizerExe \o Foo -> U32(56215, 12365)       \* 3684118605
      [] s = ModOrganizerExe \o FooBar -> U32(34781, 58390)    \* 2279466006
      [] s = OtherExe \o Foo -> U32(36096, 48662)              \* 2365636118
      [] s = OtherExe \o FooBar -> U32(11359, 38451)           \* 744461875

\* u & 0x7FFFFFFF
And31(u) == (u.hi % HalfLimb) * Limb + u.lo

\* appid = -(crc & 0x7FFFFFFF), crc = crc32((exe_path + shortcut_name).encode('utf-8'))
ChecksumAppid(exe, name) == -And31(Crc32(exe \o name))

\* the generate_steam_short_id that keeps 31 bits: signed_appid & 0x7FFFFFFF
ShortIdMasked(signed) ==
    IF signed >= 0 THEN U32(signed \div Limb, signed % Limb)
    ELSE LET t == (signed + 2147483647) + 1
         IN  U32(t \div Limb, t % Limb)

\* signed_appid & 0xFFFFFFFF
generate_steam_short_id(signed) ==
    IF signed >= 0 THEN U32(signed \div Limb, signed % Limb)
    ELSE LET t == (signed + 2147483647) + 1
         IN  U32(HalfLimb + (t \div Limb), t % Limb)

\* signed_appid = predicted_appid, minus 0x100000000 if predicted_appid > 0x7FFFFFFF
signed_appid(predicted_appid) ==
    IF predicted_appid.hi >= HalfLimb
    THEN (predicted_appid.hi - Limb) * Limb + predicted_appid.lo
    ELSE predicted_appid.hi * Limb + predicted_appid.lo

\* An integer of more than 32 bits is kept as top * 2^32 + low, 0 <= low < 2^32,
\* with top as a sign and a magnitude of two limbs
Wide(neg, mag) == [neg |-> neg, mag |-> mag]
WideOfSigned(s) ==
    IF s < 0 THEN Wide(TRUE, U32((-s) \div Limb, (-s) % Limb))
    ELSE Wide(FALSE, U32(s \div Limb, s % Limb))
WideOfUnsigned(u) == Wide(FALSE, u)

\* 0x02000000
RunGameIdFlag == 33554432

\* (x << 32) | 0x02000000: the low 32 bits of x << 32 are zero
ShiftOr(x) == [top |-> x, low |-> RunGameIdFlag]

\* run_complete_workflow: rungameid = (initial_appid << 32) | 0x02000000
WorkflowRunGameId(initial_appid) == ShiftOr(WideOfSigned(initial_appid))

\* launch_shortcut_to_trigger_prefix:
\* rungameid = (generate_steam_short_id(initial_appid) << 32) | 0x02000000
launch_shortcut_to_trigger_prefix(initial_appid) ==
    ShiftOr(WideOfUnsigned(generate_steam_short_id(initial_appid)))

\* ctypes.c_int32((unsigned_appid | 0x80000000) & 0xFFFFFFFF).value
ForcedSigned(u) == ((u.hi % HalfLimb) - HalfLimb) * Limb + u.lo

\* str(n) of a 5-digit group, zero padded
Pad5(n) ==
    (IF n < 10 THEN "0000" ELSE IF n < 100 THEN "000" ELSE IF n < 1000 THEN "00"
     ELSE IF n < 10000 THEN "0" ELSE "") \o ToString(n)

\* str(u) of an unsigned 32-bit value: u = 100 * (655 * hi + b \div 100) + b % 100
\* with b = 36 * hi + lo
Dec(u) ==
    LET b == 36 * u.hi + u.lo
        c == 655 * u.hi + (b \div 100)
        top == c \div 1000
        bot == (c % 1000) * 100 + (b % 100)
    IN  IF top = 0 THEN ToString(bot) ELSE ToString(top) \o Pad5(bot)

-----------------------------------------------------------------------------
(* Python dicts: a shortcut is a function from field names to values *)

Get(d, k, default) == IF k \in DOMAIN d THEN d[k] ELSE default

\* d.update(u)
Update(d, u) ==
    [k \in DOMAIN d \cup DOMAIN u |-> IF k \in DOMAIN u THEN u[k] ELSE d[k]]

\* the 'shortcuts' dict: keys and values in insertion order
Keys(sc) == {sc[i].k : i \in 1..Len(sc)}
Values(sc) == [i \in 1..Len(sc) |-> sc[i].v]
Lookup(sc, key) == sc[CHOOSE i \in 1..Len(sc) : sc[i].k = key].v

\* an enumeration that counts from one
EnumerateFromOne(vals) == [i \in 1..Len(vals) |-> [k |-> i, v |-> vals[i]]]

\* {str(i): s for i, s in enumerate(new_shortcuts_list)}
Enumerate(vals) == [i \in 1..Len(vals) |-> [k |-> i - 1, v |-> vals[i]]]

\* for i in range(len(shortcuts)): shortcut = shortcuts[str(i)] raises KeyError
\* at the first index that is no key
RangeKeys(sc) == 0..(Len(sc) - 1)
KeyErrorAt(sc, i) == i \notin Keys(sc)

\* the indices of range(len(shortcuts)) that are keys
Present(sc) == {i \in RangeKeys(sc) : ~KeyErrorAt(sc, i)}

\* the first index of range(len(shortcuts)) whose lookup raises or that is among
\* the matching ones: the loops that break at the first match
ScanFirst(sc, matching) ==
    LET hits == {i \in RangeKeys(sc) : KeyErrorAt(sc, i) \/ i \in matching}
    IN  IF hits = {} THEN [kind |-> "none", index |-> -1]
        ELSE LET i == CHOOSE h \in hits : \A g \in hits : h <= g
             IN  IF KeyErrorAt(sc, i) THEN [kind |-> "error", index |-> i]
                 ELSE [kind |-> "found", index |-> i]

\* shortcuts[str(i)] = v for a key that exists: the position is kept
Assign(sc, key, v) ==
    [p \in 1..Len(sc) |-> IF sc[p].k = key THEN [k |-> key, v |-> v] ELSE sc[p]]

-----------------------------------------------------------------------------
(* handle_existing_shortcut_conflict *)

\* a faulty variant: the name is looked for inside the entry's name
ConflictMatchesSubstring(e, name, exe, dir) ==
    LET name_matches == Contains(name, Get(e, "AppName", Empty))
        exe_matches == StripQuotes(Get(e, "Exe", Empty)) = exe
        startdir_matches == StripQuotes(Get(e, "StartDir", Empty)) = dir
    IN  name_matches /\ (exe_matches \/ startdir_matches)

ConflictMatches(e, name, exe, dir) ==
    LET name_matches == name = Get(e, "AppName", Empty)
        exe_matches == StripQuotes(Get(e, "Exe", Empty)) = exe
        startdir_matches == StripQuotes(Get(e, "StartDir", Empty)) = dir
    IN  name_matches /\ (exe_matches \/ startdir_matches)

ConflictOf(i, e) ==
    [index |-> i,
     name |-> Get(e, "AppName", Empty),
     exe |-> StripQuotes(Get(e, "Exe", Empty)),
     startdir |-> StripQuotes(Get(e, "StartDir", Empty))]

RECURSIVE CollectConflicts(_, _, _, _, _)
CollectConflicts(sc, i, name, exe, dir) ==
    IF i >= Len(sc) THEN <<>>
    ELSE (IF ConflictMatches(Lookup(sc, i), name, exe, dir)
          THEN <<ConflictOf(i, Lookup(sc, i))>> ELSE <<>>)
         \o CollectConflicts(sc, i + 1, name, exe, dir)

\* returns True (proceed) or the list of conflicts; never writes
handle_existing_shortcut_conflict(sc, avail, name, exe, dir) ==
    IF ~avail THEN [proceed |-> TRUE, conflicts |-> <<>>]
    ELSE IF \E i \in RangeKeys(sc) : KeyErrorAt(sc, i)
         THEN [proceed |-> TRUE, conflicts |-> <<>>]
    ELSE LET conflicts == CollectConflicts(sc, 0, name, exe, dir)
         IN  IF conflicts # <<>> THEN [proceed |-> FALSE, conflicts |-> conflicts]
             ELSE [proceed |-> TRUE, conflicts |-> <<>>]

-----------------------------------------------------------------------------
(* create_shortcut_directly_with_proton *)

\* a faulty variant: the name is compared in its quoted form
UpsertMatchesQuoted(e, name) == Get(e, "AppName", None) = Quote(name)

UpsertMatches(e, name) == Get(e, "AppName", None) = name

UpsertFields(exe, name) ==
    [Exe |-> Quote(BatchPath),
     StartDir |-> Quote(BatchDir),
     appid |-> ChecksumAppid(exe, name),
     LaunchOptions |-> Empty,
     tags |-> NoTags,
     CompatTool |-> ProtonExperimental]

NewShortcut(exe, name) ==
    [AppName |-> name,
     Exe |-> Quote(BatchPath),
     StartDir |-> Quote(BatchDir),
     appid |-> ChecksumAppid(exe, name),
     icon |-> Empty,
     ShortcutPath |-> Empty,
     LaunchOptions |-> Empty,
     IsHidden |-> 0,
     AllowDesktopConfig |-> 1,
     AllowOverlay |-> 1,
     OpenVR |-> 0,
     Devkit |-> 0,
     DevkitGameID |-> Empty,
     LastPlayTime |-> 0,
     FlatpakAppID |-> Empty,
     tags |-> NoTags,
     sortas |-> Empty,
     CompatTool |-> ProtonExperimental]

\* a faulty variant: a matching entry is rebuilt from scratch
UpsertListRebuild(vals, exe, name) ==
    LET updated == [i \in 1..Len(vals) |->
                        IF UpsertMatches(vals[i], name)
                        THEN NewShortcut(exe, name)
                        ELSE vals[i]]
        found == \E i \in 1..Len(vals) : UpsertMatches(vals[i], name)
    IN  IF found THEN updated ELSE Append(updated, NewShortcut(exe, name))

\* the loop over list(shortcuts.values()) and the append when nothing matched
UpsertList(vals, exe, name) ==
    LET updated == [i \in 1..Len(vals) |->
                        IF UpsertMatches(vals[i], name)
                        THEN Update(vals[i], UpsertFields(exe, name))
                        ELSE vals[i]]
        found == \E i \in 1..Len(vals) : UpsertMatches(vals[i], name)
    IN  IF found THEN updated ELSE Append(updated, NewShortcut(exe, name))

-----------------------------------------------------------------------------
(* replace_shortcut_with_final_exe *)

\* a faulty variant: the executable is written without its quotes
ReplaceFieldsUnquoted(final_exe, dir) ==
    [Exe |-> final_exe,
     StartDir |-> dir,
     LaunchOptions |-> Empty,
     tags |-> NoTags]

ReplaceFields(final_exe, dir) ==
    [Exe |-> Quote(final_exe),
     StartDir |-> dir,
     LaunchOptions |-> Empty,
     tags |-> NoTags]

\* a faulty variant: the entries of other names are not carried over
replace_shortcut_dropping_others(sc, avail, name, final_exe, dir) ==
    LET vals == Values(sc)
        found == \E i \in 1..Len(vals) : Get(vals[i], "AppName", None) = name
        matching == SelectSeq(vals, LAMBDA e : Get(e, "AppName", None) = name)
        new_shortcuts_list ==
            [i \in 1..Len(matching) |-> Update(matching[i], ReplaceFields(final_exe, dir))]
    IN  IF ~avail \/ ~found THEN [ret |-> FALSE, shortcuts |-> sc]
        ELSE [ret |-> TRUE, shortcuts |-> Enumerate(new_shortcuts_list)]

\* a faulty variant: the entries are taken from the copy of the file that was
\* read when the call before this one began, not from the file as it is now
replace_shortcut_from_stale_copy(sc, avail, name, final_exe, dir) ==
    LET vals == Values(pre.shortcuts)
        found == \E i \in 1..Len(vals) : Get(vals[i], "AppName", None) = name
        new_shortcuts_list ==
            [i \in 1..Len(vals) |->
                IF Get(vals[i], "AppName", None) = name
                THEN Update(vals[i], ReplaceFields(final_exe, dir))
                ELSE vals[i]]
    IN  IF ~avail \/ ~found THEN [ret |-> FALSE, shortcuts |-> sc]
        ELSE [ret |-> TRUE, shortcuts |-> Enumerate(new_shortcuts_list)]

replace_shortcut_with_final_exe(sc, avail, name, final_exe, dir) ==
    LET vals == Values(sc)
        found == \E i \in 1..Len(vals) : Get(vals[i], "AppName", None) = name
        new_shortcuts_list ==
            [i \in 1..Len(vals) |->
                IF Get(vals[i], "AppName", None) = name
                THEN Update(vals[i], ReplaceFields(final_exe, dir))
                ELSE vals[i]]
    IN  IF ~avail \/ ~found THEN [ret |-> FALSE, shortcuts |-> sc]
        ELSE [ret |-> TRUE, shortcuts |-> Enumerate(new_shortcuts_list)]

-----------------------------------------------------------------------------
(* modify_shortcut_to_final_exe *)

\* a faulty variant: only the unquoted suffix is accepted
IsBatchShortcutUnquoted(e, name) ==
    LET exe == Get(e, "Exe", Empty)
    IN  /\ Get(e, "AppName", Empty) = name
        /\ exe # Empty
        /\ Contains(Marker, exe)
        /\ EndsWith(exe, DotBat)

IsBatchShortcut(e, name) ==
    LET exe == Get(e, "Exe", Empty)
    IN  /\ Get(e, "AppName", Empty) = name
        /\ exe # Empty
        /\ Contains(Marker, exe)
        /\ (EndsWith(exe, DotBat) \/ EndsWith(exe, DotBatQ))

FinalExeFields(e, final_exe, final_dir) ==
    LET target == [Exe |-> Quote(final_exe), StartDir |-> Quote(final_dir)]
    IN  IF StripBlanks(Get(e, "CompatTool", Empty)) = Empty
        THEN Update(target, [CompatTool |-> ProtonExperimental])
        ELSE target

modify_shortcut_to_final_exe(sc, avail, name, final_exe, final_dir) ==
    LET hit == ScanFirst(sc, {i \in Present(sc) : IsBatchShortcut(Lookup(sc, i), name)})
    IN  IF ~avail \/ hit.kind # "found" THEN [ret |-> FALSE, shortcuts |-> sc]
        ELSE LET e == Lookup(sc, hit.index)
             IN  [ret |-> TRUE,
                  shortcuts |-> Assign(sc, hit.index,
                                       Update(e, FinalExeFields(e, final_exe, final_dir)))]

-----------------------------------------------------------------------------
(* modify_shortcut_target *)

\* a faulty variant: the launch options are emptied
TargetFieldsReset(e, new_exe, new_dir) ==
    [Exe |-> new_exe,
     StartDir |-> new_dir,
     LaunchOptions |-> Empty]

TargetFields(e, new_exe, new_dir) ==
    [Exe |-> new_exe,
     StartDir |-> new_dir,
     LaunchOptions |-> Get(e, "LaunchOptions", Empty)]

modify_shortcut_target(sc, avail, name, new_exe, new_dir) ==
    LET hit == ScanFirst(sc, {i \in Present(sc) :
                                 Get(Lookup(sc, i), "AppName", Empty) = name})
    IN  IF ~avail \/ hit.kind # "found" THEN [ret |-> FALSE, shortcuts |-> sc]
        ELSE LET e == Lookup(sc, hit.index)
             IN  [ret |-> TRUE,
                  shortcuts |-> Assign(sc, hit.index,
                                       Update(e, TargetFields(e, new_exe, new_dir)))]

-----------------------------------------------------------------------------
(* Text VDF files: a file is the sequence of its lines.  A line is a key    *)
(* ("k"), a key with a value ("k" "v"), an opening or a closing brace; ws   *)
(* names its white space (indentation / separator), so that two lines are   *)
(* equal exactly when their bytes are.                                      *)

KeyLine(ws, key) == [kind |-> "key", ws |-> ws, key |-> key, val |-> ""]
KVLine(ws, key, val) == [kind |-> "kv", ws |-> ws, key |-> key, val |-> val]
OpenLine(ws) == [kind |-> "open", ws |-> ws, key |-> "", val |-> ""]
CloseLine(ws) == [kind |-> "close", ws |-> ws, key |-> "", val |-> ""]

\* f'"{s}"' in line
HasQuoted(l, s) ==
    \/ l.kind \in {"key", "kv"} /\ l.key = s
    \/ l.kind = "kv" /\ l.val = s

\* '{' in line, '}' in line
HasOpen(l) == l.kind = "open"
HasClose(l) == l.kind = "close"

\* line.strip() == '"s"', line.strip() == '}'
IsKey(l, s) == l.kind = "key" /\ l.key = s
IsClose(l) == l.kind = "close"

\* indices are 1-based; NoIndex stands for Python's None
NoIndex == 0

Min(S) == CHOOSE m \in S : \A n \in S : m <= n
Max(S) == CHOOSE m \in S : \A n \in S : m >= n

\* brace_count = 0; for j in range(from, to + 1): ... if brace_count == 0: end = j
RECURSIVE BraceEnd(_, _, _, _)
BraceEnd(lines, j, to, brace_count) ==
    IF j > to THEN NoIndex
    ELSE LET opened == IF HasOpen(lines[j]) THEN brace_count + 1 ELSE brace_count
         IN  IF HasClose(lines[j])
             THEN IF opened - 1 = 0 THEN j
                  ELSE BraceEnd(lines, j + 1, to, opened - 1)
             ELSE BraceEnd(lines, j + 1, to, opened)

\* a faulty variant: the block takes the place of the line it should go before
InsertOver(lines, at, block) ==
    SubSeq(lines, 1, at - 1) \o block \o SubSeq(lines, at + 1, Len(lines))

\* lines[:at] + block + lines[at:], with at the 1-based index of the line the
\* block goes before (list.insert)
InsertBefore(lines, at, block) ==
    SubSeq(lines, 1, at - 1) \o block \o SubSeq(lines, at, Len(lines))

\* a faulty variant: the old lines are not deleted
ReplaceRangeKeepOld(lines, from, to, block) ==
    SubSeq(lines, 1, from - 1) \o block \o SubSeq(lines, from, Len(lines))

\* del lines[from:to + 1]; lines.insert(from, block)
ReplaceRange(lines, from, to, block) ==
    SubSeq(lines, 1, from - 1) \o block \o SubSeq(lines, to + 1, Len(lines))

-----------------------------------------------------------------------------
(* vdf.load / vdf.dump: the structured codec of the text format.  A dict is *)
(* the sequence of its items in insertion order.                            *)

Leaf(key, val) == [key |-> key, leaf |-> TRUE, val |-> val, kids |-> <<>>]
Node(key, kids) == [key |-> key, leaf |-> FALSE, val |-> "", kids |-> kids]

DictHas(d, key) == \E i \in 1..Len(d) : d[i].key = key
DictGet(d, key) == d[CHOOSE i \in 1..Len(d) : d[i].key = key]

\* d[key] = item
DictSet(d, key, item) ==
    IF DictHas(d, key)
    THEN [i \in 1..Len(d) |-> IF d[i].key = key THEN item ELSE d[i]]
    ELSE Append(d, item)

ParseError == [ok |-> FALSE, items |-> <<>>, next |-> 0, closed |-> FALSE]

\* the items from line i up to the brace that closes them (or the end of file),
\* added to the dict acc; duplicate keys of nested dicts are merged
RECURSIVE ParseItems(_, _, _)
ParseItems(lines, i, acc) ==
    IF i > Len(lines) THEN [ok |-> TRUE, items |-> acc, next |-> i, closed |-> FALSE]
    ELSE LET l == lines[i]
         IN  CASE l.kind = "close" ->
                    [ok |-> TRUE, items |-> acc, next |-> i + 1, closed |-> TRUE]
               [] l.kind = "open" -> ParseError
               [] l.kind = "kv" ->
                    ParseItems(lines, i + 1, DictSet(acc, l.key, Leaf(l.key, l.val)))
               [] l.kind = "key" ->
                    IF i + 1 > Len(lines) \/ lines[i + 1].kind # "open" THEN ParseError
                    ELSE LET merged == IF DictHas(acc, l.key) /\ ~DictGet(acc, l.key).leaf
                                       THEN DictGet(acc, l.key).kids ELSE <<>>
                             sub == ParseItems(lines, i + 2, merged)
                         IN  IF ~sub.ok \/ ~sub.closed THEN ParseError
                             ELSE ParseItems(lines, sub.next,
                                             DictSet(acc, l.key, Node(l.key, sub.items)))

\* vdf.load: raises SyntaxError on a brace too many or too few
VdfLoad(lines) ==
    LET r == ParseItems(lines, 1, <<>>)
    IN  IF r.ok /\ ~r.closed THEN [ok |-> TRUE, data |-> r.items]
        ELSE [ok |-> FALSE, data |-> <<>>]

\* vdf.dump (pretty=False): no indentation, one blank between key and value
RECURSIVE VdfDump(_)
VdfDump(d) ==
    IF d = <<>> THEN <<>>
    ELSE LET it == Head(d)
         IN  (IF it.leaf THEN <<KVLine("/s1", it.key, it.val)>>
              ELSE <<KeyLine("", it.key), OpenLine("")>> \o VdfDump(it.kids)
                   \o <<CloseLine("")>>)
             \o VdfDump(Tail(d))

\* d[p1][p2]...[key] = item, each missing dict on the path created empty first;
\* a string found where a dict is needed raises TypeError
RECURSIVE PathIsDicts(_, _)
PathIsDicts(d, path) ==
    \/ path = <<>>
    \/ ~DictHas(d, Head(path))
    \/ /\ ~DictGet(d, Head(path)).leaf
       /\ PathIsDicts(DictGet(d, Head(path)).kids, Tail(path))

RECURSIVE SetAt(_, _, _, _)
SetAt(d, path, key, item) ==
    IF path = <<>> THEN DictSet(d, key, item)
    ELSE LET p == Head(path)
             kids == IF DictHas(d, p) THEN DictGet(d, p).kids ELSE <<>>
         IN  DictSet(d, p, Node(p, SetAt(kids, Tail(path), key, item)))

CompatToolMappingPath == <<"Software", "Valve", "Steam", "CompatToolMapping">>

-----------------------------------------------------------------------------
(* set_proton_version_for_shortcut *)

\* the key under which the mapping is written: str(appid)
ProtonVersionKey(appid) == ToString(appid)

set_proton_version_for_shortcut(cfg, appid, proton_version) ==
    LET loaded == VdfLoad(cfg)
    IN  IF ~loaded.ok \/ ~PathIsDicts(loaded.data, CompatToolMappingPath)
        THEN [ret |-> FALSE, config |-> cfg]
        ELSE [ret |-> TRUE,
              config |-> VdfDump(SetAt(loaded.data, CompatToolMappingPath,
                                       ProtonVersionKey(appid),
                                       Leaf(ProtonVersionKey(appid), proton_version)))]

\* the whole of create_shortcut_directly_with_proton: the store is written
\* before the mapping is
create_shortcut_directly_with_proton(sc, cfg, avail, name, exe, dir) ==
    IF ~avail THEN [ret |-> FALSE, shortcuts |-> sc, config |-> cfg]
    ELSE LET written == Enumerate(UpsertList(Values(sc), exe, name))
             mapped == set_proton_version_for_shortcut(
                           cfg, ChecksumAppid(exe, name), "proton_experimental")
         IN  [ret |-> mapped.ret, shortcuts |-> written, config |-> mapped.config]

-----------------------------------------------------------------------------
(* set_compatibility_tool_complete_stl_style: direct text manipulation *)

\* new_entry_lines, in Steam's format (9 and 10 tabs)
NewEntryLines(unsigned_appid, compat_tool) ==
    <<KeyLine("t9", Dec(unsigned_appid)),
      OpenLine("t9"),
      KVLine("t10/t4", "name", compat_tool),
      KVLine("t10/t5", "config", ""),
      KVLine("t10/t5", "priority", "250"),
      CloseLine("t9")>>

OverlayLine == KVLine("s24/s10", "OverlayAppEnable", "1")
VRLine == KVLine("s24/s9", "DisableLaunchInVR", "1")

\* appid_entry, for an "Apps" section that has no block of the identifier
AppidEntry(signed_appid_int) ==
    <<KeyLine("s16", ToString(signed_appid_int)),
      OpenLine("s16"),
      OverlayLine,
      VRLine,
      CloseLine("s16")>>

\* apps_section, for a file that has no "Apps" section
AppsSection(signed_appid_int) ==
    <<KeyLine("s8", "Apps"), OpenLine("s8")>>
    \o AppidEntry(signed_appid_int)
    \o <<CloseLine("s8")>>

\* the first line of lines[from..to] that holds the quoted string, or NoIndex
FirstQuoted(lines, from, to, s) ==
    LET hits == {i \in from..to : HasQuoted(lines[i], s)}
    IN  IF hits = {} THEN NoIndex ELSE Min(hits)

\* Step 1, config.vdf.  ok is false where the code returns False or raises
\* (None + 1 is a TypeError) before it writes.
PatchConfig(lines, unsigned_appid, compat_tool) ==
    LET compat_section_start == FirstQuoted(lines, 1, Len(lines), "CompatToolMapping")
        compat_section_end ==
            IF compat_section_start = NoIndex THEN NoIndex
            ELSE BraceEnd(lines, compat_section_start + 1, Len(lines), 0)
        appid_entry_start ==
            IF compat_section_end = NoIndex THEN NoIndex
            ELSE FirstQuoted(lines, compat_section_start, compat_section_end,
                             Dec(unsigned_appid))
        appid_entry_end ==
            IF appid_entry_start = NoIndex THEN NoIndex
            ELSE BraceEnd(lines, appid_entry_start + 1, compat_section_end, 0)
        new_entry_lines == NewEntryLines(unsigned_appid, compat_tool)
    IN  IF compat_section_start = NoIndex \/ compat_section_end = NoIndex
        THEN [ok |-> FALSE, lines |-> lines]
        ELSE IF appid_entry_start = NoIndex
        THEN [ok |-> TRUE, lines |-> InsertBefore(lines, compat_section_end, new_entry_lines)]
        ELSE IF appid_entry_end = NoIndex
        THEN [ok |-> FALSE, lines |-> lines]
        ELSE [ok |-> TRUE,
              lines |-> ReplaceRange(lines, appid_entry_start, appid_entry_end,
                                     new_entry_lines)]

\* the update of an existing block lines[from..to]: the flag lines found are
\* rewritten, the missing ones are inserted before the first closing brace
SetFlagLines(lines, from, to) ==
    LET rewritten ==
            [i \in 1..Len(lines) |->
                IF i \in from..to /\ HasQuoted(lines[i], "OverlayAppEnable") THEN OverlayLine
                ELSE IF i \in from..to /\ HasQuoted(lines[i], "DisableLaunchInVR") THEN VRLine
                ELSE lines[i]]
        overlay_found == \E i \in from..to : HasQuoted(lines[i], "OverlayAppEnable")
        vr_found ==
            \E i \in from..to : /\ ~HasQuoted(lines[i], "OverlayAppEnable")
                                /\ HasQuoted(lines[i], "DisableLaunchInVR")
        closes == {i \in from..to : IsClose(rewritten[i])}
        insert_pos == IF closes = {} THEN to ELSE Min(closes)
        \* each value is inserted at insert_pos, so the later one ends up first
        new_values == (IF ~vr_found THEN <<VRLine>> ELSE <<>>)
                      \o (IF ~overlay_found THEN <<OverlayLine>> ELSE <<>>)
    IN  InsertBefore(rewritten, insert_pos, new_values)

\* Step 2, localconfig.vdf
PatchLocalConfig(lines, signed_appid_int) ==
    LET starts == {i \in 1..Len(lines) : IsKey(lines[i], "Apps")}
        apps_section_start == IF starts = {} THEN NoIndex ELSE Min(starts)
        apps_section_end ==
            IF apps_section_start = NoIndex THEN NoIndex
            ELSE BraceEnd(lines, apps_section_start + 1, Len(lines), 0)
        braces == {i \in 1..Len(lines) : IsClose(lines[i])}
        last_brace_pos == IF braces = {} THEN NoIndex ELSE Max(braces)
        appid_entry_start ==
            IF apps_section_end = NoIndex THEN NoIndex
            ELSE FirstQuoted(lines, apps_section_start, apps_section_end,
                             ToString(signed_appid_int))
        appid_entry_end ==
            IF appid_entry_start = NoIndex THEN NoIndex
            ELSE BraceEnd(lines, appid_entry_start + 1, apps_section_end, 0)
    IN  IF apps_section_start = NoIndex
        THEN IF last_brace_pos = NoIndex THEN [ok |-> FALSE, lines |-> lines]
             ELSE [ok |-> TRUE,
                   lines |-> InsertBefore(lines, last_brace_pos,
                                          AppsSection(signed_appid_int))]
        ELSE IF apps_section_end = NoIndex THEN [ok |-> FALSE, lines |-> lines]
        ELSE IF appid_entry_start = NoIndex
        THEN [ok |-> TRUE,
              lines |-> InsertBefore(lines, apps_section_end, AppidEntry(signed_appid_int))]
        ELSE IF appid_entry_end = NoIndex THEN [ok |-> FALSE, lines |-> lines]
        ELSE [ok |-> TRUE, lines |-> SetFlagLines(lines, appid_entry_start, appid_entry_end)]

\* config.vdf is written before localconfig.vdf is looked for
set_compatibility_tool_complete_stl_style(cfg, lc, configAvail, localAvail, unsigned_appid, compat_tool) ==
    LET step1 == PatchConfig(cfg, unsigned_appid, compat_tool)
        step2 == PatchLocalConfig(lc, ForcedSigned(unsigned_appid))
    IN  IF ~configAvail \/ ~step1.ok THEN [ret |-> FALSE, config |-> cfg, localconfig |-> lc]
        ELSE IF ~localAvail \/ ~step2.ok
        THEN [ret |-> FALSE, config |-> step1.lines, localconfig |-> lc]
        ELSE [ret |-> TRUE, config |-> step1.lines, localconfig |-> step2.lines]

-----------------------------------------------------------------------------
(* The files the model starts from, in the format the Steam client writes *)

\* "InstallConfigStore" { "Software" { "Valve" { "Steam" { ... } } } }
ConfigFile(steam_section, closed) ==
    <<KeyLine("", "InstallConfigStore"), OpenLine(""),
      KeyLine("t1", "Software"), OpenLine("t1"),
      KeyLine("t2", "Valve"), OpenLine("t2"),
      KeyLine("t3", "Steam"), OpenLine("t3")>>
    \o steam_section
    \o (IF closed
        THEN <<KVLine("t4/t2", "AutoUpdateWindowEnabled", "0"),
               CloseLine("t3"), CloseLine("t2"), CloseLine("t1"), CloseLine("")>>
        ELSE <<>>)

MappingSection(blocks, closed) ==
    <<KeyLine("t4", "CompatToolMapping"), OpenLine("t4")>>
    \o blocks
    \o (IF closed THEN <<CloseLine("t4")>> ELSE <<>>)

MappingBlock(id, name) ==
    <<KeyLine("t5", id), OpenLine("t5"),
      KVLine("t6/t2", "name", name),
      KVLine("t6/t2", "config", ""),
      KVLine("t6/t2", "priority", "250"),
      CloseLine("t5")>>

\* one sibling block
ConfigOneBlock == ConfigFile(MappingSection(MappingBlock("123", "proton_9"), TRUE), TRUE)
\* a sibling block and a block of identifier 456
ConfigTwoBlocks ==
    ConfigFile(MappingSection(MappingBlock("123", "proton_9")
                              \o MappingBlock("456", "proton_8"), TRUE), TRUE)
\* a sibling block whose value is the string 456
ConfigSiblingValue == ConfigFile(MappingSection(MappingBlock("123", "456"), TRUE), TRUE)
\* no CompatToolMapping section
ConfigNoMapping == ConfigFile(<<>>, TRUE)
\* a file cut off inside the CompatToolMapping section
ConfigTruncated == ConfigFile(MappingSection(MappingBlock("123", "proton_9"), FALSE), FALSE)

\* "UserLocalConfigStore" { ... }
LocalConfigFile(sections) ==
    <<KeyLine("", "UserLocalConfigStore"), OpenLine(""),
      KVLine("t1/t2", "SurveyDate", "2024")>>
    \o sections
    \o <<CloseLine("")>>

AppsOf(blocks) == <<KeyLine("t1", "Apps"), OpenLine("t1")>> \o blocks \o <<CloseLine("t1")>>

AppBlock(id, body) == <<KeyLine("t2", id), OpenLine("t2")>> \o body \o <<CloseLine("t2")>>

\* -2147483192 is the key the code derives from the identifier 456
LocalNoApps == LocalConfigFile(<<>>)
LocalOtherApp ==
    LocalConfigFile(AppsOf(AppBlock("-5", <<KVLine("t3/t2", "OverlayAppEnable", "0")>>)))
LocalFlagsSet ==
    LocalConfigFile(AppsOf(
        AppBlock("-5", <<KVLine("t3/t2", "DisableLaunchInVR", "0")>>)
        \o AppBlock("-2147483192", <<KVLine("t3/t2", "OverlayAppEnable", "0"),
                                     KVLine("t3/t2", "UseSteamControllerConfig", "2")>>)))
LocalNestedBlock ==
    LocalConfigFile(AppsOf(
        AppBlock("-2147483192",
                 <<KeyLine("t3", "cloud"), OpenLine("t3"),
                   KVLine("t4/t2", "last_sync_state", "synchronized"),
                   CloseLine("t3"),
                   KVLine("t3/t2", "UseSteamControllerConfig", "2")>>)))
LocalEmpty == <<>>

-----------------------------------------------------------------------------
(* The shortcuts the model starts from *)

UserLaunchOptions == <<"STEAM_COMPAT_MOUNTS=/mnt", SP, "%command%">>
UserIcon == <<"grid.png">>

\* a bootstrap shortcut an earlier run left behind, quoted Exe
EntryBatchQuoted ==
    [AppName |-> Foo,
     Exe |-> Quote(OldBatchPath),
     StartDir |-> Quote(BatchDir),
     appid |-> -1234,
     icon |-> <<"foo.png">>,
     LaunchOptions |-> UserLaunchOptions,
     tags |-> <<"Jackify">>,
     CompatTool |-> <<"proton_9">>]

\* the same with an unquoted Exe and no CompatTool field
EntryBatchUnquoted ==
    [AppName |-> Foo,
     Exe |-> OldBatchPath,
     StartDir |-> BatchDir,
     appid |-> -77,
     icon |-> Empty,
     LaunchOptions |-> Empty,
     tags |-> NoTags]

\* a finished shortcut of the other name, CompatTool blank
EntryFinal ==
    [AppName |-> FooBar,
     Exe |-> Quote(ModOrganizerExe),
     StartDir |-> Quote(RealDir),
     appid |-> -131982358,
     icon |-> Empty,
     LaunchOptions |-> <<"%command%">>,
     tags |-> NoTags,
     CompatTool |-> <<SP>>]

\* a shortcut added by hand, without a LaunchOptions field
EntryOther ==
    [AppName |-> Foo,
     Exe |-> Quote(OtherExe),
     StartDir |-> DifferentDir,
     appid |-> -5,
     icon |-> <<"other.png">>,
     tags |-> <<"favorite">>]

InitEntries == {EntryBatchQuoted, EntryBatchUnquoted, EntryFinal, EntryOther}
InitStores == UNION {[1..n -> InitEntries] : n \in 0..MaxInit}

-----------------------------------------------------------------------------
(* State *)

Files == [shortcuts |-> shortcuts, config |-> config, localconfig |-> localconfig]

CountNamed(sc, name) ==
    Cardinality({i \in 1..Len(sc) : Get(sc[i].v, "AppName", Empty) = name})

WfIdle == [pc |-> "idle"]
WfReturned == wf.pc \in {"idle", "done", "failed"}

\* the record of a call: again says that the call before it was the same
\* operation with the same arguments and inputs, repeat that it was the same
\* operation on the same name, fresh that the store held no entry of the name
\* when the first of these calls began
Called(op, args, ret, conflicts) ==
    LET again == last.op = op /\ last.args = args
        repeat == /\ last.op = op
                  /\ "name" \in DOMAIN args
                  /\ last.args.name = args.name
    IN  [op |-> op, args |-> args, ret |-> ret, conflicts |-> conflicts,
         again |-> again,
         repeat |-> repeat,
         fresh |-> IF repeat THEN last.fresh
                   ELSE "name" \in DOMAIN args /\ CountNamed(shortcuts, args.name) = 0]

StoreArgs(name, exe, dir, avail) ==
    [name |-> name, exe |-> exe, dir |-> dir, avail |-> avail]

\* the arguments of a store operation called by step 1 or 7 of the workflow
WfArgs(name, exe, dir, avail, step) ==
    [name |-> name, exe |-> exe, dir |-> dir, avail |-> avail, step |-> step]

Init ==
    /\ userdata \in BOOLEAN
    /\ \E vals \in InitStores :
          shortcuts = IF userdata THEN Enumerate(vals) ELSE <<>>
    /\ config \in {ConfigOneBlock, ConfigTruncated}
    /\ localconfig = LocalNoApps
    /\ wf = WfIdle
    /\ last = [op |-> "none", args |-> <<>>, ret |-> FALSE, conflicts |-> <<>>,
               again |-> FALSE, repeat |-> FALSE, fresh |-> FALSE]
    /\ pre = Files
    /\ calls = 0

\* a call begins: no workflow is running, and the behaviour has calls left
Begin ==
    /\ WfReturned
    /\ calls < MaxCalls
    /\ calls' = calls + 1
    /\ pre' = Files
    /\ UNCHANGED userdata

-----------------------------------------------------------------------------
(* Calls of the store operations, made while no workflow is running *)

ConflictCall ==
    \E name \in CallNames, exe \in FinalExes, dir \in Dirs :
        LET avail == userdata
            r == handle_existing_shortcut_conflict(shortcuts, avail, name, exe, dir)
        IN  /\ Begin
            /\ last' = Called("conflict", StoreArgs(name, exe, dir, avail),
                              r.proceed, r.conflicts)
            /\ UNCHANGED <<shortcuts, config, localconfig, wf>>

UpsertCall ==
    \E name \in CallNames, exe \in FinalExes, dir \in FinalDirs :
        LET avail == userdata
            r == create_shortcut_directly_with_proton(shortcuts, config, avail,
                                                      name, exe, dir)
        IN  /\ Begin
            /\ shortcuts' = r.shortcuts
            /\ config' = r.config
            /\ last' = Called("upsert", StoreArgs(name, exe, dir, avail), r.ret, <<>>)
            /\ UNCHANGED <<localconfig, wf>>

ReplaceCall ==
    \E name \in CallNames, exe \in RetargetExes, dir \in FinalDirs :
        LET avail == userdata
            r == replace_shortcut_with_final_exe(shortcuts, avail, name, exe, dir)
        IN  /\ Begin
            /\ shortcuts' = r.shortcuts
            /\ last' = Called("replace", StoreArgs(name, exe, dir, avail), r.ret, <<>>)
            /\ UNCHANGED <<config, localconfig, wf>>

ModifyFinalCall ==
    \E name \in CallNames, exe \in RetargetExes, dir \in FinalDirs :
        LET avail == userdata
            r == modify_shortcut_to_final_exe(shortcuts, avail, name, exe, dir)
        IN  /\ Begin
            /\ shortcuts' = r.shortcuts
            /\ last' = Called("modify_final", StoreArgs(name, exe, dir, avail), r.ret, <<>>)
            /\ UNCHANGED <<config, localconfig, wf>>

ModifyTargetCall ==
    \E name \in CallNames, exe \in RetargetExes, dir \in FinalDirs :
        LET avail == userdata
            r == modify_shortcut_target(shortcuts, avail, name, exe, dir)
        IN  /\ Begin
            /\ shortcuts' = r.shortcuts
            /\ last' = Called("modify_target", StoreArgs(name, exe, dir, avail), r.ret, <<>>)
            /\ UNCHANGED <<config, localconfig, wf>>

-----------------------------------------------------------------------------
(* run_complete_workflow, one action per step.  What the collaborators do     *)
(* (the restart, the launch, the file system, protontricks) is chosen freely. *)

\* return False, None, None, None
WfFailure == <<FALSE, None, None, None>>
\* return True, prefix_path, actual_appid
WfSuccess(prefix_path, actual_appid) == <<TRUE, prefix_path, actual_appid>>

WfFailed == [pc |-> "failed", result |-> WfFailure]

\* the steps of the invocation that have returned, each with what it returned
Logged(step, ok) == Append(wf.log, <<step, ok>>)

\* a workflow that goes on whatever a step returned
WfGoRegardless(step, ok, pc) == [wf EXCEPT !.pc = pc, !.log = Logged(step, ok)]

\* "if not <step>: return False, None, None, None", and the next step otherwise
WfGo(step, ok, pc) ==
    IF ok THEN [wf EXCEPT !.pc = pc, !.log = Logged(step, ok)] ELSE WfFailed

\* compatdata/<id>
CompatdataPath(id) == <<"compatdata/", id>>

\* what verify_prefix_creation looks for under compatdata/<id>: the directory
\* itself, pfx in it, and the two registry files and drive_c in pfx
PrefixParts == {"dir", "pfx", "system.reg", "user.reg", "drive_c"}
PfxFiles == {"system.reg", "user.reg", "drive_c"}

\* the states a prefix directory can be in
Prefixes ==
    {s \in SUBSET PrefixParts :
        /\ "pfx" \in s => "dir" \in s
        /\ s \cap PfxFiles # {} => "pfx" \in s}

\* a verification that does not look for user.reg
VerifyWithoutUserReg(prefix) == {"dir", "pfx", "system.reg", "drive_c"} \subseteq prefix

verify_prefix_creation(prefix) ==
    IF "dir" \notin prefix THEN FALSE
    ELSE IF "pfx" \notin prefix THEN FALSE
    ELSE IF "system.reg" \notin prefix THEN FALSE
    ELSE IF "user.reg" \notin prefix THEN FALSE
    ELSE IF "drive_c" \notin prefix THEN FALSE
    ELSE TRUE

\* no prefix, a bare directory, a complete prefix
NoPrefix == {}
BarePrefix == {"dir"}
CompletePrefix == PrefixParts

\* what a step finds at compatdata/<id>: what the file system kept in wf.fs
\* holds there; when the workflow's record keeps no file system, nothing, a
\* bare directory or a complete prefix
PrefixAt(id) ==
    IF "fs" \in DOMAIN wf THEN {wf.fs[id]}
    ELSE {NoPrefix, BarePrefix, CompletePrefix}

\* Steps 1 and 2: the shortcut is created or updated, the identifiers derived
WfCreate ==
    \E name \in CallNames, exe \in FinalExes, dir \in FinalDirs :
        LET avail == userdata
            r == create_shortcut_directly_with_proton(shortcuts, config, avail,
                                                      name, exe, dir)
            initial_appid == ChecksumAppid(exe, name)
        IN  /\ Begin
            /\ shortcuts' = r.shortcuts
            /\ config' = r.config
            /\ last' = Called("workflow", WfArgs(name, exe, dir, avail, 1), r.ret, <<>>)
            /\ wf' = IF ~r.ret THEN WfFailed
                     ELSE [pc |-> "restart", name |-> name, exe |-> exe, dir |-> dir,
                           rerun |-> /\ last.op = "workflow"
                                     /\ last.args.name = name
                                     /\ last.args.exe = exe,
                           initial_appid |-> initial_appid,
                           rungameid |-> WorkflowRunGameId(initial_appid),
                           expected_prefix_id |-> ToString(-initial_appid),
                           log |-> <<<<"upsert", r.ret>>>>]
            /\ UNCHANGED localconfig

\* Step 3: restart_steam
WfRestart ==
    /\ wf.pc = "restart"
    /\ \E restarted \in BOOLEAN : wf' = WfGo("restart", restarted, "launch")
    /\ UNCHANGED <<shortcuts, config, localconfig, last, pre, calls, userdata>>

\* Step 4: steam steam://rungameid/...; a timeout of the command is expected
WfLaunch ==
    /\ wf.pc = "launch"
    /\ \E outcome \in {"returned_zero", "returned_nonzero", "timeout", "error"} :
           wf' = WfGo("launch", outcome \in {"returned_zero", "timeout"}, "wait")
    /\ UNCHANGED <<shortcuts, config, localconfig, last, pre, calls, userdata>>

\* Steps 5 and 6: the sleep, then the prefix directory is looked for:
\* compatdata_path.exists()
WfVerifyPrefix ==
    /\ wf.pc = "wait"
    /\ \E prefix \in PrefixAt(wf.expected_prefix_id) :
           LET exists == "dir" \in prefix
           IN  wf' = WfGo("prefix", exists, "replace")
    /\ UNCHANGED <<shortcuts, config, localconfig, last, pre, calls, userdata>>

\* Step 7: replace_shortcut_with_final_exe
WfReplace ==
    /\ wf.pc = "replace"
    /\  LET avail == userdata
            r == replace_shortcut_with_final_exe(shortcuts, avail, wf.name, wf.exe, wf.dir)
        IN  /\ shortcuts' = r.shortcuts
            /\ last' = Called("workflow", WfArgs(wf.name, wf.exe, wf.dir, avail, 7),
                              r.ret, <<>>)
            /\ wf' = WfGo("retarget", r.ret, "detect")
    /\ pre' = Files
    /\ UNCHANGED <<config, localconfig, calls, userdata>>

\* Step 8: detect_actual_prefix_appid, the identifier protontricks lists
WfDetect ==
    /\ wf.pc = "detect"
    /\ \E listed \in BOOLEAN :
           wf' = IF listed
                 THEN [wf EXCEPT !.pc = "verify",
                                 !.initial_appid = generate_steam_short_id(@),
                                 !.log = Logged("resolve", listed)]
                 ELSE WfFailed
    /\ UNCHANGED <<shortcuts, config, localconfig, last, pre, calls, userdata>>

\* Step 9: the prefix of the detected identifier is verified
WfVerifyFinal ==
    /\ wf.pc = "verify"
    /\ \E prefix \in PrefixAt(Dec(wf.initial_appid)) :
           LET verified == "dir" \in prefix /\ verify_prefix_creation(prefix)
           IN  wf' = IF verified
                     THEN [pc |-> "done",
                           result |-> WfSuccess(CompatdataPath(Dec(wf.initial_appid)),
                                                wf.initial_appid)]
                     ELSE WfFailed
    /\ UNCHANGED <<shortcuts, config, localconfig, last, pre, calls, userdata>>

\* The Steam client, running again after step 3, saves shortcuts.vdf while the
\* workflow sleeps in step 5: the user has set launch options and an icon on
\* the shortcut
ClientWrite ==
    /\ wf.pc = "wait"
    /\ \E p \in 1..Len(shortcuts) :
          /\ Get(shortcuts[p].v, "AppName", Empty) = wf.name
          /\ Get(shortcuts[p].v, "LaunchOptions", Empty) # UserLaunchOptions
    /\ shortcuts' =
          [p \in 1..Len(shortcuts) |->
              IF Get(shortcuts[p].v, "AppName", Empty) = wf.name
              THEN [k |-> shortcuts[p].k,
                    v |-> Update(shortcuts[p].v, [LaunchOptions |-> UserLaunchOptions,
                                                  icon |-> UserIcon])]
              ELSE shortcuts[p]]
    /\ UNCHANGED <<config, localconfig, wf, last, pre, calls, userdata>>

Next ==
    \/ ConflictCall
    \/ UpsertCall
    \/ ReplaceCall
    \/ ModifyFinalCall
    \/ ModifyTargetCall
    \/ WfCreate
    \/ WfRestart
    \/ WfLaunch
    \/ WfVerifyPrefix
    \/ WfReplace
    \/ WfDetect
    \/ WfVerifyFinal
    \/ ClientWrite

Spec == Init /\ [][Next]_vars

-----------------------------------------------------------------------------
(* Calls of set_compatibility_tool_complete_stl_style on the files a Steam    *)
(* client has written                                                         *)

\* 456, and the short identifier of a shortcut the store operations create
PatchIds == {U32(0, 456), generate_steam_short_id(ChecksumAppid(ModOrganizerExe, Foo))}
CompatTools == {"proton_experimental", "proton_8"}

ConfigFiles ==
    {ConfigOneBlock, ConfigTwoBlocks, ConfigSiblingValue, ConfigNoMapping, ConfigTruncated}
LocalConfigFiles == {LocalNoApps, LocalOtherApp, LocalFlagsSet, LocalNestedBlock, LocalEmpty}

PatchArgs(unsigned_appid, compat_tool, configAvail, localAvail) ==
    [appid |-> unsigned_appid, compat_tool |-> compat_tool,
     configAvail |-> configAvail, localAvail |-> localAvail]

\* the stores the operations that look an entry up by name are called on: no
\* entry, an entry of another name, and with it a bootstrap entry of the name
PatchStores ==
    {<<>>, Enumerate(<<EntryFinal>>), Enumerate(<<EntryFinal, EntryBatchQuoted>>)}

InitPatch ==
    /\ shortcuts \in PatchStores
    /\ config \in ConfigFiles
    /\ localconfig \in LocalConfigFiles
    /\ wf = WfIdle
    /\ last = [op |-> "none", args |-> <<>>, ret |-> FALSE, conflicts |-> <<>>,
               again |-> FALSE, repeat |-> FALSE, fresh |-> FALSE]
    /\ pre = Files
    /\ calls = 0
    /\ userdata = TRUE

PatchCall ==
    \E unsigned_appid \in PatchIds, compat_tool \in CompatTools,
       configAvail \in BOOLEAN, localAvail \in BOOLEAN :
        LET r == set_compatibility_tool_complete_stl_style(
                     config, localconfig, configAvail, localAvail,
                     unsigned_appid, compat_tool)
        IN  /\ Begin
            /\ config' = r.config
            /\ localconfig' = r.localconfig
            /\ last' = Called("patch",
                              PatchArgs(unsigned_appid, compat_tool, configAvail, localAvail),
                              r.ret, <<>>)
            /\ UNCHANGED <<shortcuts, wf>>

\* a variant that writes the file although no entry has the name
SetCompatToolAlways(sc, avail, name) ==
    [ret |-> FALSE,
     shortcuts |-> [p \in 1..Len(sc) |->
                       [k |-> sc[p].k,
                        v |-> Update(sc[p].v, [CompatTool |-> ProtonExperimental])]]]

\* set_compatool_on_shortcut: the first entry of the name gets
\* CompatTool = 'proton_experimental'; without one nothing is written
set_compatool_on_shortcut(sc, avail, name) ==
    LET hit == ScanFirst(sc, {i \in Present(sc) :
                                 Get(Lookup(sc, i), "AppName", Empty) = name})
    IN  IF ~avail \/ hit.kind # "found" THEN [ret |-> FALSE, shortcuts |-> sc]
        ELSE [ret |-> TRUE,
              shortcuts |-> Assign(sc, hit.index,
                                   Update(Lookup(sc, hit.index),
                                          [CompatTool |-> ProtonExperimental]))]

SetCompatToolCall ==
    \E name \in CallNames :
        LET avail == userdata
            r == set_compatool_on_shortcut(shortcuts, avail, name)
        IN  /\ Begin
            /\ shortcuts' = r.shortcuts
            /\ last' = Called("set_compatool", [name |-> name, avail |-> avail],
                              r.ret, <<>>)
            /\ UNCHANGED <<config, localconfig, wf>>

NextPatch ==
    \/ PatchCall
    \/ ReplaceCall
    \/ ModifyFinalCall
    \/ SetCompatToolCall

SpecPatch == InitPatch /\ [][NextPatch]_vars

-----------------------------------------------------------------------------
(* Properties of the shortcut store and of the workflow *)

\* the positions of the entries of a name, and the entries of the other names
NamedIn(sc, name) == {p \in 1..Len(sc) : Get(sc[p].v, "AppName", Empty) = name}
OthersOf(sc, name) == SelectSeq(Values(sc), LAMBDA e : Get(e, "AppName", Empty) # name)

\* the entry was only changed in the fields named
SameExcept(before, after, fields) ==
    /\ DOMAIN after \ fields = DOMAIN before \ fields
    /\ \A f \in DOMAIN before \ fields : after[f] = before[f]

\* the two stores hold the same entries under the same keys outside position q
SameOutside(before, after, q) ==
    /\ Len(after) = Len(before)
    /\ \A p \in 1..Len(before) : after[p].k = before[p].k
    /\ \A p \in 1..Len(before) : p # q => after[p] = before[p]

UpsertWritten == {"Exe", "StartDir", "appid", "LaunchOptions", "tags", "CompatTool"}

\* C1: after two calls in a row of create_shortcut_directly_with_proton with
\* the name N, begun on a store with no entry named N, the store holds exactly
\* one entry named N, and it carries the values of the latest call.
C1_UpsertIdempotent ==
    (last.op = "upsert" /\ last.repeat /\ last.fresh /\ last.args.avail)
    => /\ CountNamed(shortcuts, last.args.name) = 1
       /\ \A p \in NamedIn(shortcuts, last.args.name) :
             /\ shortcuts[p].v.AppName = last.args.name
             /\ shortcuts[p].v.Exe = Quote(BatchPath)
             /\ shortcuts[p].v.StartDir = Quote(BatchDir)
             /\ shortcuts[p].v.appid = ChecksumAppid(last.args.exe, last.args.name)
             /\ shortcuts[p].v.LaunchOptions = Empty
             /\ shortcuts[p].v.CompatTool = ProtonExperimental

\* the second of two calls found the entry the first one made, with another
\* identifier, and appended nothing
C1_Witness ==
    /\ last.op = "upsert" /\ last.repeat /\ last.fresh /\ last.args.avail
    /\ CountNamed(pre.shortcuts, last.args.name) = 1
    /\ Len(shortcuts) = Len(pre.shortcuts)
    /\ \E p \in NamedIn(pre.shortcuts, last.args.name) :
          pre.shortcuts[p].v.appid # ChecksumAppid(last.args.exe, last.args.name)

C3_RerunSafe ==
    (last.op = "workflow")
    => /\ CountNamed(pre.shortcuts, last.args.name) <= 1
              => CountNamed(shortcuts, last.args.name) <= 1
       /\ OthersOf(shortcuts, last.args.name) = OthersOf(pre.shortcuts, last.args.name)

\* the second invocation for the same name and executable has retargeted the
\* one entry of the name, next to an entry of another name
C3_Witness ==
    /\ last.op = "workflow" /\ last.args.step = 7 /\ last.ret
    /\ wf.pc = "detect" /\ wf.rerun
    /\ CountNamed(shortcuts, last.args.name) = 1
    /\ OthersOf(shortcuts, last.args.name) # <<>>

\* the Exe of a bootstrap shortcut: it contains prefix_creation_ and ends with
\* .bat, quoted or not
BootstrapExe(exe) == Contains(Marker, exe) /\ EndsWith(StripQuotes(exe), DotBat)

\* C4: modify_shortcut_to_final_exe on a readable store with one entry named N
\* whose Exe is a bootstrap Exe returns success; afterwards the store has the
\* same number of entries, exactly one named N, its Exe and StartDir are the
\* quoted new values and its appid and LaunchOptions are as before.
C4_RetargetScenario ==
    (last.op = "modify_final" /\ last.args.avail
        /\ CountNamed(pre.shortcuts, last.args.name) = 1
        /\ \A p \in NamedIn(pre.shortcuts, last.args.name) :
              BootstrapExe(pre.shortcuts[p].v.Exe))
    => /\ last.ret
       /\ Len(shortcuts) = Len(pre.shortcuts)
       /\ CountNamed(shortcuts, last.args.name) = 1
       /\ \A p \in NamedIn(pre.shortcuts, last.args.name) :
             /\ shortcuts[p].v.AppName = last.args.name
             /\ shortcuts[p].v.Exe = Quote(last.args.exe)
             /\ shortcuts[p].v.StartDir = Quote(last.args.dir)
             /\ shortcuts[p].v.appid = pre.shortcuts[p].v.appid
             /\ shortcuts[p].v.LaunchOptions = pre.shortcuts[p].v.LaunchOptions

\* a quoted bootstrap Exe with launch options of the user's was retargeted,
\* in a store of two entries
C4_Witness ==
    /\ last.op = "modify_final" /\ last.args.avail /\ last.ret
    /\ CountNamed(pre.shortcuts, last.args.name) = 1
    /\ Len(pre.shortcuts) = 2
    /\ \E p \in NamedIn(pre.shortcuts, last.args.name) :
          /\ pre.shortcuts[p].v = EntryBatchQuoted
          /\ shortcuts[p].v.Exe = Quote(last.args.exe)
          /\ shortcuts[p].v.LaunchOptions = UserLaunchOptions

Retargets == {"modify_final", "modify_target"}

RetargetDefaults(op, before) ==
    IF op = "modify_final"
    THEN IF StripBlanks(Get(before, "CompatTool", Empty)) = Empty
         THEN [CompatTool |-> ProtonExperimental] ELSE <<>>
    ELSE IF "LaunchOptions" \in DOMAIN before THEN <<>>
         ELSE [LaunchOptions |-> Empty]

Retargeted == last.op = "workflow" /\ last.args.step = 7 /\ last.ret

ExpectedConflicts(sc, name, exe, dir) ==
    {sc[p].k : p \in {q \in 1..Len(sc) :
        /\ Get(sc[q].v, "AppName", Empty) = name
        /\ \/ StripQuotes(Get(sc[q].v, "Exe", Empty)) = exe
           \/ StripQuotes(Get(sc[q].v, "StartDir", Empty)) = dir}}

C7_WitnessNone ==
    /\ last.op = "conflict" /\ last.args.avail /\ last.ret
    /\ CountNamed(pre.shortcuts, last.args.name) >= 1

-----------------------------------------------------------------------------
(* Properties of the patching of config.vdf and localconfig.vdf *)

\* the lines of the block of a key: from the line that is the key alone to the
\* brace that closes it
BlockOf(lines, key) ==
    LET starts == {i \in 1..Len(lines) : IsKey(lines[i], key)}
    IN  IF starts = {} THEN {}
        ELSE LET i == Min(starts)
                 end == BraceEnd(lines, i + 1, Len(lines), 0)
             IN  IF end = NoIndex THEN {} ELSE i..end

RECURSIVE Without(_, _)
Without(lines, drop) ==
    IF lines = <<>> THEN <<>>
    ELSE Without(SubSeq(lines, 1, Len(lines) - 1), drop)
         \o (IF Len(lines) \in drop THEN <<>> ELSE <<lines[Len(lines)]>>)

\* the direct members of a block: the lines one brace deep in it
Opens(lines, from, to) == Cardinality({i \in from..to : HasOpen(lines[i])})
Closes(lines, from, to) == Cardinality({i \in from..to : HasClose(lines[i])})
DirectMembers(lines, block) ==
    {j \in block : /\ lines[j].kind = "kv"
                   /\ Opens(lines, Min(block), j) - Closes(lines, Min(block), j) = 1}

\* the file is well formed and has a CompatToolMapping section
HasMappingSection(lines) ==
    /\ VdfLoad(lines).ok
    /\ BlockOf(lines, "CompatToolMapping") # {}

PatchedConfig ==
    /\ last.op = "patch"
    /\ last.args.configAvail
    /\ HasMappingSection(pre.config)

\* C8 as claimed: patching a readable config.vdf that has a CompatToolMapping
\* section for the identifier X leaves every line outside X's block as it was,
\* in the same order, and afterwards X's block exists in the section with the
\* requested "name", whatever the sibling blocks contain.
C8_SiblingsPreserved ==
    PatchedConfig
    => LET X == Dec(last.args.appid)
           block == BlockOf(config, X)
       IN  /\ Without(config, block) = Without(pre.config, BlockOf(pre.config, X))
           /\ block # {}
           /\ block \subseteq BlockOf(config, "CompatToolMapping")
           /\ \E j \in DirectMembers(config, block) :
                 config[j].key = "name" /\ config[j].val = last.args.compat_tool

\* the same, for the files in which no sibling value is X's decimal string
C8_SiblingsPreservedApart ==
    (PatchedConfig
        /\ \A i \in 1..Len(pre.config) :
              pre.config[i].kind = "kv" => pre.config[i].val # Dec(last.args.appid))
    => C8_SiblingsPreserved

\* C9: the second of two calls in a row of
\* set_compatibility_tool_complete_stl_style with the same identifier and layer
\* name leaves config.vdf and localconfig.vdf as the first call left them.
C9_PatchIdempotent ==
    (last.op = "patch" /\ last.again)
    => /\ config = pre.config
       /\ localconfig = pre.localconfig

\* the second call succeeded on the block and the flags the first one wrote
C9_Witness ==
    /\ last.op = "patch" /\ last.again /\ last.ret
    /\ \E i \in 1..Len(config) :
          /\ i + 5 <= Len(config)
          /\ SubSeq(config, i, i + 5)
                = NewEntryLines(last.args.appid, last.args.compat_tool)
    /\ \E j \in 1..Len(localconfig) : localconfig[j] = VRLine
    /\ \E j \in 1..Len(localconfig) : localconfig[j] = OverlayLine

FlagKeys == {"OverlayAppEnable", "DisableLaunchInVR"}

\* the flag lines that are direct members of the block
FlagMembers(lines, block) ==
    {j \in DirectMembers(lines, block) : lines[j].key \in FlagKeys}

\* C10 as claimed: when the identifier's block exists in the "Apps" section of
\* localconfig.vdf, a successful call changes or adds only the OverlayAppEnable
\* and DisableLaunchInVR lines of that block, and afterwards both flags are
\* direct members of the block with the value "1".
C10_FlagsMerged ==
    LET key == ToString(ForcedSigned(last.args.appid))
        before == BlockOf(pre.localconfig, key)
        after == BlockOf(localconfig, key)
    IN  (last.op = "patch" /\ last.ret /\ before # {})
        => /\ Without(localconfig, FlagMembers(localconfig, after))
                 = Without(pre.localconfig, FlagMembers(pre.localconfig, before))
           /\ \A f \in FlagKeys :
                 \E j \in FlagMembers(localconfig, after) :
                     localconfig[j].key = f /\ localconfig[j].val = "1"

\* the same, for the blocks that have no nested sub-block
C10_FlagsMergedFlat ==
    LET key == ToString(ForcedSigned(last.args.appid))
        before == BlockOf(pre.localconfig, key)
    IN  (last.op = "patch" /\ before # {}
            /\ Opens(pre.localconfig, Min(before), Max(before)) = 1)
        => C10_FlagsMerged

-----------------------------------------------------------------------------
(* Properties of the workflow's returns *)

\* the identifier fields of the entries named name
AppidsOf(sc, name) ==
    [p \in NamedIn(sc, name) |-> Get(sc[p].v, "appid", None)]

\* step 6 ends the workflow: the prefix directory has not appeared
PrefixTimeout == wf.pc = "wait" /\ wf'.pc = "failed"

\* C11 as claimed: when the expected prefix directory has not appeared after
\* the launch, run_complete_workflow returns (False, None, None), and the
\* entries named N that the store held when the workflow was called carry the
\* appid they carried then.
C11_TimeoutLeavesAppid ==
    [][PrefixTimeout =>
          /\ wf'.result = <<FALSE, None, None>>
          /\ \A p \in NamedIn(pre.shortcuts, last.args.name) :
                 /\ p \in NamedIn(shortcuts', last.args.name)
                 /\ AppidsOf(shortcuts', last.args.name)[p]
                       = AppidsOf(pre.shortcuts, last.args.name)[p]]_vars

\* the two halves of C11, each on its own
C11_TimeoutResult ==
    [][PrefixTimeout => wf'.result = <<FALSE, None, None>>]_vars

C11_TimeoutAppid ==
    [][PrefixTimeout =>
          \A p \in NamedIn(pre.shortcuts, last.args.name) :
              /\ p \in NamedIn(shortcuts', last.args.name)
              /\ AppidsOf(shortcuts', last.args.name)[p]
                    = AppidsOf(pre.shortcuts, last.args.name)[p]]_vars

-----------------------------------------------------------------------------
(* Steps 6 to 9 of run_complete_workflow on a file system that the Steam     *)
(* client fills while the workflow runs, and the second entry point,         *)
(* continue_workflow_after_conflict_resolution                               *)

\* the directories the workflow looks at: compatdata/<expected_prefix_id> in
\* step 6, compatdata/<actual_appid> in step 9
PrefixIds(initial_appid) ==
    {ToString(-initial_appid), Dec(generate_steam_short_id(initial_appid))}

NoPrefixes(initial_appid) == [id \in PrefixIds(initial_appid) |-> {}]

\* the workflow has gone through steps 1 to 5
InitSteps ==
    /\ userdata = TRUE
    /\ \E e \in {EntryBatchQuoted, EntryOther}, exe \in FinalExes :
          LET before == Enumerate(<<e>>)
              r == create_shortcut_directly_with_proton(before, ConfigOneBlock, TRUE,
                                                        Foo, exe, RealDir)
              initial_appid == ChecksumAppid(exe, Foo)
          IN  /\ shortcuts = r.shortcuts
              /\ config = r.config
              /\ pre = [shortcuts |-> before, config |-> ConfigOneBlock,
                        localconfig |-> LocalNoApps]
              /\ last = [op |-> "workflow", args |-> WfArgs(Foo, exe, RealDir, TRUE, 1),
                         ret |-> r.ret, conflicts |-> <<>>,
                         again |-> FALSE, repeat |-> FALSE, fresh |-> FALSE]
              /\ wf = [pc |-> "wait", name |-> Foo, exe |-> exe, dir |-> RealDir,
                       rerun |-> FALSE,
                       initial_appid |-> initial_appid,
                       rungameid |-> WorkflowRunGameId(initial_appid),
                       expected_prefix_id |-> ToString(-initial_appid),
                       log |-> <<<<"upsert", TRUE>>, <<"restart", TRUE>>,
                                 <<"launch", TRUE>>>>,
                       fs |-> NoPrefixes(initial_appid)]
    /\ localconfig = LocalNoApps
    /\ calls = 1

\* The Steam client, launched in step 4, creates the parts of a prefix one by
\* one while the workflow sleeps, queries and verifies
SteamCreatesPrefix ==
    /\ "fs" \in DOMAIN wf
    /\ \E id \in DOMAIN wf.fs, part \in PrefixParts :
          /\ part \notin wf.fs[id]
          /\ wf.fs[id] \cup {part} \in Prefixes
          /\ wf' = [wf EXCEPT !.fs[id] = @ \cup {part}]
    /\ UNCHANGED <<shortcuts, config, localconfig, last, pre, calls, userdata>>

\* return True, prefix_path, appid, last_timestamp
ContinueSuccess(prefix_path, appid, last_timestamp) ==
    <<TRUE, prefix_path, appid, last_timestamp>>

Timestamp == <<"[00:01:02]">>

\* verify_compatibility_tool_persists: f'"{appid}"' in content
verify_compatibility_tool_persists(cfg, appid) ==
    \E i \in 1..Len(cfg) : HasQuoted(cfg[i], Dec(appid))

\* a Step 4 that fails the workflow when the mapping is not seen
VerifyPersistsOrFail(persists, result) == IF persists THEN result ELSE WfFailure

\* Step 4 of run_working_workflow and of
\* continue_workflow_after_conflict_resolution: a verification that fails is
\* logged as a warning, and the function goes on to its return
VerifyPersistsStep(persists, result) == result

\* the identifiers the second entry point is called with: the one of the
\* shortcut, and the one of a mapping block the configuration file holds
ContinueIds(exe, name) == {generate_steam_short_id(ChecksumAppid(exe, name)), U32(0, 123)}

\* the arguments of an entry point, with what its collaborators answered
StepArgs(name, exe, dir, appid, shortcut, restarted, created) ==
    [name |-> name, exe |-> exe, dir |-> dir, appid |-> appid,
     shortcut |-> shortcut, restarted |-> restarted, created |-> created]

\* continue_workflow_after_conflict_resolution: the restart, the prefix
\* creation by the Proton wrapper, the verification of the compatibility
\* tool, get_prefix_path
ContinueCall ==
    \E name \in CallNames, exe \in RetargetExes, dir \in FinalDirs :
        \E restarted \in BOOLEAN, created \in BOOLEAN, found \in BOOLEAN,
           appid \in ContinueIds(exe, name) :
            LET prefix_path == IF found THEN CompatdataPath(Dec(appid)) ELSE None
                persists == verify_compatibility_tool_persists(config, appid)
                result == IF ~restarted \/ ~created THEN WfFailure
                          ELSE VerifyPersistsStep(
                                   persists,
                                   ContinueSuccess(prefix_path, appid, Timestamp))
            IN  /\ Begin
                /\ wf' = [pc |-> IF result[1] THEN "done" ELSE "failed",
                          result |-> result]
                /\ last' = Called("continue",
                                  StepArgs(name, exe, dir, appid, TRUE, restarted, created),
                                  result[1], <<>>)
                /\ UNCHANGED <<shortcuts, config, localconfig>>

\* NativeSteamService.create_shortcut_with_proton, called by
\* create_shortcut_with_native_service: the entry is written to the store and
\* the compatibility tool mapped under the unsigned identifier it returns
NativeCreate(sc, cfg, avail, name, exe, dir) ==
    LET app_id == generate_steam_short_id(ChecksumAppid(exe, name))
        mapped == PatchConfig(cfg, app_id, "proton_experimental")
    IN  IF ~avail \/ ~mapped.ok
        THEN [ret |-> FALSE, appid |-> None, shortcuts |-> sc, config |-> cfg]
        ELSE [ret |-> TRUE, appid |-> app_id,
              shortcuts |-> Enumerate(UpsertList(Values(sc), exe, name)),
              config |-> mapped.lines]

\* run_working_workflow: the shortcut is created by the native service, Steam
\* restarted, the prefix created by the Proton wrapper, the compatibility tool
\* verified.  The Steam client, when it restarts, writes config.vdf from what
\* it holds in memory: the mapping is kept or is lost
WorkingCall ==
    \E name \in CallNames, exe \in RetargetExes, dir \in FinalDirs :
        \E restarted \in BOOLEAN, created \in BOOLEAN, found \in BOOLEAN,
           kept \in BOOLEAN :
            LET native == NativeCreate(shortcuts, config, userdata, name, exe, dir)
                appid == generate_steam_short_id(ChecksumAppid(exe, name))
                after == IF native.ret /\ restarted /\ ~kept THEN config
                         ELSE native.config
                result ==
                    IF ~native.ret \/ ~restarted \/ ~created THEN WfFailure
                    ELSE VerifyPersistsStep(
                             verify_compatibility_tool_persists(after, appid),
                             ContinueSuccess(
                                 IF found THEN CompatdataPath(Dec(appid)) ELSE None,
                                 appid, Timestamp))
            IN  /\ Begin
                /\ shortcuts' = native.shortcuts
                /\ config' = after
                /\ wf' = [pc |-> IF result[1] THEN "done" ELSE "failed",
                          result |-> result]
                /\ last' = Called("working",
                                  StepArgs(name, exe, dir, appid, native.ret,
                                           restarted, created),
                                  result[1], <<>>)
                /\ UNCHANGED localconfig

\* verify_prefix_creation(prefix_path), called on a directory while the Steam
\* client is filling it
VerifyPrefixCall ==
    /\ "fs" \in DOMAIN wf
    /\ \E id \in DOMAIN wf.fs :
          last' = [op |-> "verify_prefix",
                   args |-> [id |-> id, prefix |-> wf.fs[id]],
                   ret |-> verify_prefix_creation(wf.fs[id]),
                   conflicts |-> <<>>, again |-> FALSE, repeat |-> FALSE,
                   fresh |-> FALSE]
    /\ UNCHANGED <<shortcuts, config, localconfig, wf, pre, calls, userdata>>

NextSteps ==
    \/ SteamCreatesPrefix
    \/ VerifyPrefixCall
    \/ WfVerifyPrefix
    \/ WfReplace
    \/ WfDetect
    \/ WfVerifyFinal
    \/ ContinueCall
    \/ WorkingCall

SpecSteps == InitSteps /\ [][NextSteps]_vars

-----------------------------------------------------------------------------
(* Properties of the two entry points and of the verification steps *)

\* an entry point has returned
Returned == wf.pc \in {"done", "failed"}

\* C12 as claimed: every return of run_complete_workflow and of
\* continue_workflow_after_conflict_resolution is a 3-tuple (success flag,
\* prefix path or None, identifier or None), on success and on failure alike.
C12_ResultShape ==
    Returned => /\ Len(wf.result) = 3
                /\ wf.result[1] \in BOOLEAN

\* what the code does: every failure return has four components, and so has
\* the success return of continue_workflow_after_conflict_resolution
C12_FailureHasFour ==
    (Returned /\ wf.result[1] = FALSE) => wf.result = <<FALSE, None, None, None>>

C12_ContinueHasFour ==
    (Returned /\ last.op = "continue") => Len(wf.result) = 4

\* the prefix directory a verification step looks at
Examined ==
    IF wf.pc = "wait" THEN wf.fs[wf.expected_prefix_id]
    ELSE wf.fs[Dec(wf.initial_appid)]

\* step 6 or step 9 ends the workflow
VerificationFails == wf.pc \in {"wait", "verify"} /\ wf'.pc = "failed"

\* C19 as claimed: a verification step ends the workflow in failure only when
\* nothing of the prefix exists; with a prefix directory whose structure is
\* incomplete the workflow goes on.
C19_SoftSuccess ==
    [][VerificationFails => Examined = {}]_vars

\* what the code does: step 6 is content with the directory alone, step 9
\* fails on every prefix that lacks a part
C19_StepSixSoft ==
    [][(wf.pc = "wait" /\ wf'.pc = "failed") => Examined = {}]_vars

C19_StepNineStrict ==
    [][(wf.pc = "verify" /\ Examined # PrefixParts) => wf'.pc # "done"]_vars

\* an entry point with a Step 4 has returned past its restart and its prefix
\* creation, and the mapping of its identifier is not in config.vdf
PersistenceNotSeen ==
    /\ Returned
    /\ last.op \in {"continue", "working"}
    /\ last.args.shortcut
    /\ last.args.restarted
    /\ last.args.created
    /\ ~verify_compatibility_tool_persists(config, last.args.appid)

\* C21: in run_working_workflow and continue_workflow_after_conflict_resolution
\* the persistence verification is soft: when the mapping of the identifier is
\* not observed after the restart and the prefix creation, the workflow still
\* returns success, with the prefix path and the identifier.
C21_SoftPersistence ==
    PersistenceNotSeen =>
        /\ wf.pc = "done"
        /\ wf.result[1] = TRUE
        /\ wf.result[2] \in {None, CompatdataPath(Dec(last.args.appid))}
        /\ wf.result[4] = Timestamp
        /\ wf.result[3] = last.args.appid

\* run_working_workflow has returned success although the client lost the
\* mapping the native service had written
C21_Witness ==
    /\ PersistenceNotSeen
    /\ last.op = "working"
    /\ wf.result[2] # None

C21_WitnessContinue ==
    /\ PersistenceNotSeen
    /\ last.op = "continue"
    /\ wf.result[1] = TRUE

-----------------------------------------------------------------------------
(* The identifier conversions, applied to identifiers around the boundaries  *)
(* of the signed and the unsigned 32-bit range                               *)

MinSigned == -2147483647 - 1
MaxSigned == 2147483647

\* signed identifiers: -2^31.., around -2^16, around 0, around 2^16, ..2^31-1
SignedIds ==
    {MinSigned + i : i \in 0..Window}
        \cup {c + i : c \in {-Limb, 0, Limb}, i \in (-Window)..Window}
        \cup {MaxSigned - i : i \in 0..Window}

\* the identifiers of the checksum deriver are -(crc & 0x7FFFFFFF)
ChecksumIds == {s \in SignedIds : s <= 0 /\ s > MinSigned}

\* unsigned identifiers: 0.., around 2^31, ..2^32-1, and others in between
UnsignedIds ==
    {U32(hi, lo) : hi \in {0, 1, HalfLimb - 1, HalfLimb, Limb - 1},
                   lo \in (0 .. Window) \cup ((Limb - 1 - Window) .. (Limb - 1))}

InitIds ==
    /\ userdata = TRUE
    /\ shortcuts = <<>>
    /\ config = ConfigOneBlock
    /\ localconfig = LocalNoApps
    /\ wf = WfIdle
    /\ last = [op |-> "none", args |-> <<>>, ret |-> FALSE, conflicts |-> <<>>,
               again |-> FALSE, repeat |-> FALSE, fresh |-> FALSE]
    /\ pre = Files
    /\ calls = 0

Converted(op, args, ret) ==
    [op |-> op, args |-> args, ret |-> ret, conflicts |-> <<>>,
     again |-> FALSE, repeat |-> FALSE, fresh |-> FALSE]

\* the launch handle, as run_complete_workflow and as
\* launch_shortcut_to_trigger_prefix compute it
RunGameIdCall ==
    /\ \E s \in ChecksumIds :
          last' = Converted("rungameid", [initial_appid |-> s],
                            [workflow |-> WorkflowRunGameId(s),
                             launch |-> launch_shortcut_to_trigger_prefix(s)])
    /\ UNCHANGED <<shortcuts, config, localconfig, wf, pre, calls, userdata>>

\* signed to unsigned with generate_steam_short_id, and back as
\* create_shortcut_with_stl_algorithm does
ToUnsignedCall ==
    /\ \E s \in SignedIds :
          LET u == generate_steam_short_id(s)
          IN  last' = Converted("to_unsigned", [signed |-> s],
                                [unsigned |-> u, back |-> signed_appid(u)])
    /\ UNCHANGED <<shortcuts, config, localconfig, wf, pre, calls, userdata>>

\* unsigned to signed, and back
ToSignedCall ==
    /\ \E u \in UnsignedIds :
          LET s == signed_appid(u)
          IN  last' = Converted("to_signed", [unsigned |-> u],
                                [signed |-> s, back |-> generate_steam_short_id(s)])
    /\ UNCHANGED <<shortcuts, config, localconfig, wf, pre, calls, userdata>>

\* the two keys set_compatibility_tool_complete_stl_style writes under: the
\* unsigned identifier in config.vdf, signed_appid_int in localconfig.vdf
FlagsKeyCall ==
    /\ \E u \in UnsignedIds :
          last' = Converted("flags_key", [unsigned |-> u],
                            [mapping |-> u, flags |-> ForcedSigned(u)])
    /\ UNCHANGED <<shortcuts, config, localconfig, wf, pre, calls, userdata>>

NextIds ==
    \/ RunGameIdCall
    \/ ToUnsignedCall
    \/ ToSignedCall
    \/ FlagsKeyCall

SpecIds == InitIds /\ [][NextIds]_vars

\* C13 as claimed: for every identifier s of the checksum deriver the launch
\* handle of run_complete_workflow is ((s & 0xFFFFFFFF) << 32) | 0x02000000,
\* which is not negative, and launch_shortcut_to_trigger_prefix computes the
\* same handle.
C13_LaunchHandle ==
    last.op = "rungameid"
    => LET s == last.args.initial_appid
           handle == [top |-> Wide(FALSE, generate_steam_short_id(s)),
                      low |-> RunGameIdFlag]
       IN  /\ last.ret.workflow = handle
           /\ ~last.ret.workflow.top.neg
           /\ last.ret.launch = last.ret.workflow

\* what the code does: launch_shortcut_to_trigger_prefix builds the handle of
\* the claim; run_complete_workflow shifts the signed identifier, and its
\* handle is negative for every identifier but 0
C13_LaunchFunctionHandle ==
    last.op = "rungameid"
    => /\ last.ret.launch.top = Wide(FALSE, generate_steam_short_id(last.args.initial_appid))
       /\ last.ret.launch.low = RunGameIdFlag

C13_WorkflowHandleNegative ==
    (last.op = "rungameid" /\ last.args.initial_appid < 0)
    => /\ last.ret.workflow.top.neg
       /\ last.ret.workflow # last.ret.launch

\* C14: for every signed 32-bit s, generate_steam_short_id and then the
\* reconstruction of create_shortcut_with_stl_algorithm give s back; for every
\* unsigned 32-bit u, the reconstruction and then generate_steam_short_id
\* give u back.
C14_RoundTrip ==
    /\ last.op = "to_unsigned" => last.ret.back = last.args.signed
    /\ last.op = "to_signed" => last.ret.back = last.args.unsigned

\* the conversions are within range: the unsigned form has two limbs, the
\* signed form is a signed 32-bit integer of the sign the high bit gives
C14_Ranges ==
    /\ last.op = "to_unsigned"
          => /\ last.ret.unsigned.hi \in 0..(Limb - 1)
             /\ last.ret.unsigned.lo \in 0..(Limb - 1)
             /\ (last.args.signed < 0) = (last.ret.unsigned.hi >= HalfLimb)
    /\ last.op = "to_signed"
          => /\ last.ret.signed \in MinSigned..MaxSigned
             /\ (last.ret.signed < 0) = (last.args.unsigned.hi >= HalfLimb)

\* a negative identifier went to the upper half and back, and an identifier
\* of the upper half went to a negative one and back
C14_Witness ==
    /\ last.op = "to_unsigned"
    /\ last.args.signed = MinSigned
    /\ last.ret.unsigned = U32(HalfLimb, 0)
    /\ last.ret.back = MinSigned

C14_WitnessUnsigned ==
    /\ last.op = "to_signed"
    /\ last.args.unsigned = U32(Limb - 1, Limb - 1)
    /\ last.ret.signed = -1
    /\ last.ret.back = U32(Limb - 1, Limb - 1)

-----------------------------------------------------------------------------
(* Properties of the compatibility mapping *)

\* config_data[path[1]][path[2]]..., an empty dict where a key is missing
RECURSIVE DictAt(_, _)
DictAt(d, path) ==
    IF path = <<>> THEN d
    ELSE IF DictHas(d, Head(path)) THEN DictAt(DictGet(d, Head(path)).kids, Tail(path))
    ELSE <<>>

\* the keys of the CompatToolMapping section that set_proton_version_for_shortcut
\* writes to, as vdf.load gives them
MappingKeys(cfg) ==
    LET mapping == DictAt(VdfLoad(cfg).data, CompatToolMappingPath)
    IN  {mapping[i].key : i \in 1..Len(mapping)}

\* create_shortcut_directly_with_proton returned True, called directly or as
\* step 1 of the workflow
Upserted ==
    /\ last.ret
    /\ \/ last.op = "upsert"
       \/ last.op = "workflow" /\ last.args.step = 1

\* C15 as claimed: the key that create_shortcut_directly_with_proton (through
\* set_proton_version_for_shortcut) writes into CompatToolMapping is the
\* decimal string of the unsigned 32-bit form of the entry's identifier.
C15_UnsignedKeys ==
    Upserted
    => LET appid == ChecksumAppid(last.args.exe, last.args.name)
           key == Dec(generate_steam_short_id(appid))
       IN  /\ key \in MappingKeys(config)
           /\ MappingKeys(config) \ MappingKeys(pre.config) \subseteq {key}

\* what the code does: the key is the decimal string of the signed identifier
C15_SignedKeyWritten ==
    Upserted
    => LET appid == ChecksumAppid(last.args.exe, last.args.name)
       IN  /\ ToString(appid) \in MappingKeys(config)
           /\ MappingKeys(config) \ MappingKeys(pre.config) \subseteq {ToString(appid)}

-----------------------------------------------------------------------------
(* The write of shortcuts.vdf, chunk by chunk, beside a reader               *)
(*     with open(shortcuts_path, 'wb') as f:                                 *)
(*         vdf.binary_dump(shortcuts_data, f)                                *)

\* the binary file: b'\x00shortcuts\x00', the entries, b'\x08\x08'
\* (the two marks are told from the entries, whose keys are 0, 1, ..., by k)
Header == [k |-> -1, v |-> <<>>]
Terminator == [k |-> -2, v |-> <<>>]

\* the chunks vdf.binary_dump writes
binary_dump(sc) == <<Header>> \o sc \o <<Terminator>>

\* vdf.binary_load: a file cut short (or empty) is a SyntaxError
binary_load(bytes) ==
    IF /\ Len(bytes) >= 2
       /\ bytes[1].k = Header.k
       /\ bytes[Len(bytes)].k = Terminator.k
       /\ \A i \in 2..(Len(bytes) - 1) : bytes[i].k >= 0
    THEN [ok |-> TRUE, data |-> SubSeq(bytes, 2, Len(bytes) - 1)]
    ELSE [ok |-> FALSE, data |-> <<>>]

\* the writer between two mutations; file is what the disk holds
Persisted(file) == [pc |-> "idle", file |-> file]

InitPersist ==
    /\ userdata = TRUE
    /\ \E vals \in InitStores : shortcuts = Enumerate(vals)
    /\ config = ConfigOneBlock
    /\ localconfig = LocalNoApps
    /\ wf = Persisted(binary_dump(shortcuts))
    /\ last = [op |-> "none", args |-> <<>>, ret |-> FALSE, conflicts |-> <<>>,
               again |-> FALSE, repeat |-> FALSE, fresh |-> FALSE]
    /\ pre = Files
    /\ calls = 0

\* A mutation has loaded the file and computed shortcuts_data; open(path, 'wb')
\* truncates the file.  The mutations are create_shortcut_directly_with_proton
\* (lines 748-750) and modify_shortcut_to_final_exe (lines 1202-1204).
PersistOpen ==
    /\ wf.pc = "idle"
    /\ calls < MaxCalls
    /\ binary_load(wf.file).ok
    /\ \E op \in {"upsert", "modify_final"} :
          LET sc == binary_load(wf.file).data
              r == IF op = "upsert"
                   THEN create_shortcut_directly_with_proton(sc, config, TRUE, Foo,
                                                             ModOrganizerExe, RealDir)
                   ELSE modify_shortcut_to_final_exe(sc, TRUE, Foo, ModOrganizerExe, RealDir)
          IN  /\ r.shortcuts # sc
              /\ wf' = [pc |-> "writing", file |-> <<>>,
                        before |-> wf.file, data |-> binary_dump(r.shortcuts)]
              /\ shortcuts' = r.shortcuts
    /\ calls' = calls + 1
    /\ pre' = Files
    /\ UNCHANGED <<config, localconfig, last, userdata>>

\* the next chunk reaches the disk
PersistWrite ==
    /\ wf.pc = "writing"
    /\ Len(wf.file) < Len(wf.data)
    /\ wf' = [wf EXCEPT !.file = SubSeq(wf.data, 1, Len(wf.file) + 1)]
    /\ UNCHANGED <<shortcuts, config, localconfig, last, pre, calls, userdata>>

\* the file is closed after the last chunk
PersistClose ==
    /\ wf.pc = "writing"
    /\ wf.file = wf.data
    /\ wf' = Persisted(wf.file)
    /\ UNCHANGED <<shortcuts, config, localconfig, last, pre, calls, userdata>>

\* the process is killed while it writes: the disk keeps what had reached it
PersistInterrupted ==
    /\ wf.pc = "writing"
    /\ wf' = [wf EXCEPT !.pc = "killed"]
    /\ UNCHANGED <<shortcuts, config, localconfig, last, pre, calls, userdata>>

\* The Steam client reads shortcuts.vdf
ClientRead ==
    /\ last' = [op |-> "read", args |-> [file |-> wf.file],
                ret |-> binary_load(wf.file).ok, conflicts |-> <<>>,
                again |-> FALSE, repeat |-> FALSE, fresh |-> FALSE]
    /\ UNCHANGED <<shortcuts, config, localconfig, wf, pre, calls, userdata>>

NextPersist ==
    \/ PersistOpen
    \/ PersistWrite
    \/ PersistClose
    \/ PersistInterrupted
    \/ ClientRead

SpecPersist == InitPersist /\ [][NextPersist]_vars

\* C16 as claimed: whatever the reader reads while a mutation persists
\* shortcuts.vdf, or after the writer was interrupted, is a complete file:
\* the content before the write or the content after it, never an empty or a
\* partly written file.
C16_AtomicPersistence ==
    [][ClientRead =>
          /\ wf.file # <<>>
          /\ binary_load(wf.file).ok
          /\ wf.pc \in {"writing", "killed"} => wf.file \in {wf.before, wf.data}]_vars

\* what the code does: from open(path, 'wb') until the last chunk is written
\* the disk holds a file that cannot be loaded
C16_TornWhileWriting ==
    (wf.pc = "writing" /\ wf.file # wf.data) => ~binary_load(wf.file).ok

\* between two mutations the file is complete
C16_CompleteWhenIdle ==
    wf.pc = "idle" => binary_load(wf.file) = [ok |-> TRUE, data |-> shortcuts]

-----------------------------------------------------------------------------
(* Properties of the mutations beside an external writer *)

\* the last call was a mutation of the store, and nothing has been written
\* since it returned
Mutation ==
    \/ last.op \in {"upsert", "replace", "modify_final", "modify_target"}
    \/ /\ last.op = "workflow" /\ last.args.step = 1
       /\ wf.pc \in {"restart", "launch"} \/ ~last.ret
    \/ last.op = "workflow" /\ last.args.step = 7

\* the fields a mutation writes in the entries it matches
Targeted ==
    IF last.op = "upsert" \/ (last.op = "workflow" /\ last.args.step = 1)
        THEN UpsertWritten
    ELSE IF last.op = "replace" \/ (last.op = "workflow" /\ last.args.step = 7)
        THEN {"Exe", "StartDir", "LaunchOptions", "tags"}
    ELSE IF last.op = "modify_final" THEN {"Exe", "StartDir", "CompatTool"}
    ELSE {"Exe", "StartDir", "LaunchOptions"}

-----------------------------------------------------------------------------
(* Properties of conflict detection without a store *)

\* what handle_existing_shortcut_conflict reports after it has read a store
\* that holds no conflicting entry
NoConflictOutcome ==
    handle_existing_shortcut_conflict(<<>>, TRUE, Foo, ModOrganizerExe, RealDir)

\* the outcome of the last call
Outcome == [proceed |-> last.ret, conflicts |-> last.conflicts]

\* C18 as claimed: when no shortcuts.vdf is found, the outcome of
\* handle_existing_shortcut_conflict differs from the outcome "store read, no
\* conflicting entry".
C18_NoStoreDistinct ==
    (last.op = "conflict" /\ ~last.args.avail) => Outcome # NoConflictOutcome

\* what the code does: without a store the call returns True, as it does after
\* reading a store without conflicts
C18_NoStoreProceeds ==
    (last.op = "conflict" /\ ~last.args.avail)
    => /\ last.ret = TRUE
       /\ last.conflicts = <<>>
       /\ Outcome = NoConflictOutcome

-----------------------------------------------------------------------------
(* detect_actual_prefix_appid: the queries of protontricks -l *)

\* for i in range(30)
MaxAttempts == 30

\* the literals 'Non-Steam shortcut:', '(' and ')'
NonSteamShortcut == <<"Non-Steam shortcut:">>
LParen == "("
RParen == ")"

\* the identifiers protontricks lists: those of the two shortcuts, and a game
FooId == generate_steam_short_id(ChecksumAppid(ModOrganizerExe, Foo))
FooBarId == generate_steam_short_id(ChecksumAppid(ModOrganizerExe, FooBar))
GameId == U32(0, 480)
ListedIds == {FooId, FooBarId, GameId}

\* lines of the listing: "Non-Steam shortcut: Foo (2758332339)", the same
\* without an identifier, and a game of the Steam library, "Foo Fighters (480)"
ShortcutLine(name, id) == NonSteamShortcut \o <<SP>> \o name \o <<SP, LParen, Dec(id), RParen>>
BareLine(name) == NonSteamShortcut \o <<SP>> \o name
GameLine == <<"Foo", SP, "Fighters", SP, LParen, Dec(GameId), RParen>>

\* a shortcut whose name has parentheses of its own: "Foo (beta)"
FooBeta == <<"Foo", SP, LParen, "beta", RParen>>

\* what run_protontricks('-l') does: it completes with a return code and an
\* output, it times out, or it raises
Completed(returncode, lines) ==
    [kind |-> "completed", returncode |-> returncode, stdout |-> lines]
TimedOut == [kind |-> "timeout", returncode |-> 0, stdout |-> <<>>]
Raised == [kind |-> "raised", returncode |-> 0, stdout |-> <<>>]
NoOutput == [kind |-> "none", returncode |-> 0, stdout |-> <<>>]

Listings ==
    {<<>>,
     <<GameLine>>,
     <<BareLine(Foo)>>,
     <<ShortcutLine(Foo, FooId)>>,
     <<GameLine, ShortcutLine(Foo, FooId)>>,
     <<BareLine(Foo), GameLine, ShortcutLine(Foo, FooId)>>,
     <<ShortcutLine(FooBeta, FooBarId)>>,
     <<ShortcutLine(FooBar, FooBarId), ShortcutLine(Foo, FooId)>>}

Outputs ==
    {Completed(0, lines) : lines \in Listings}
        \cup {Completed(1, <<>>), Completed(1, <<ShortcutLine(Foo, FooId)>>)}
        \cup {TimedOut, Raised}

\* the index of the first chunk c of s, Len(s) + 1 when there is none
Find(s, c) ==
    IF \E i \in 1..Len(s) : s[i] = c
    THEN CHOOSE i \in 1..Len(s) : s[i] = c /\ \A j \in 1..(i - 1) : s[j] # c
    ELSE Len(s) + 1

\* line.split('(')[1].split(')')[0]
AppidStr(line) ==
    LET rest == SubSeq(line, Find(line, LParen) + 1, Len(line))
        piece == SubSeq(rest, 1, Find(rest, LParen) - 1)
    IN  SubSeq(piece, 1, Find(piece, RParen) - 1)

\* int(appid_str): a ValueError unless the string is a decimal number
IsInt(str) == Len(str) = 1 /\ \E u \in ListedIds : Dec(u) = str[1]
ParseInt(str) == CHOOSE u \in ListedIds : Dec(u) = str[1]

\* the lines of which the identifier is taken
Candidates(lines, shortcut_name) ==
    {i \in 1..Len(lines) :
        /\ Contains(shortcut_name, lines[i])
        /\ Contains(NonSteamShortcut, lines[i])
        /\ Contains(<<LParen>>, lines[i])
        /\ Contains(<<RParen>>, lines[i])}

\* None: nothing was returned
NotFound == [returned |-> FALSE]

\* a faulty variant: the literal 'Non-Steam shortcut:' is not asked for
detect_query_any_line(output, shortcut_name) ==
    IF output.kind # "completed" THEN NotFound
    ELSE IF output.returncode # 0 THEN NotFound
    ELSE LET lines == output.stdout
             named == {i \in 1..Len(lines) :
                          /\ Contains(shortcut_name, lines[i])
                          /\ Contains(<<LParen>>, lines[i])
                          /\ Contains(<<RParen>>, lines[i])}
         IN  IF named = {} THEN NotFound
             ELSE IF ~IsInt(AppidStr(lines[Min(named)])) THEN NotFound
             ELSE [returned |-> TRUE, appid |-> ParseInt(AppidStr(lines[Min(named)]))]

\* one pass of the loop body: the query, the scan of its output, and the
\* except clauses, which only log and sleep
detect_query(output, shortcut_name) ==
    IF output.kind # "completed" THEN NotFound
    ELSE IF output.returncode # 0 THEN NotFound
    ELSE LET lines == output.stdout
             found == Candidates(lines, shortcut_name)
         IN  IF found = {} THEN NotFound
             ELSE IF ~IsInt(AppidStr(lines[Min(found)])) THEN NotFound
             ELSE [returned |-> TRUE, appid |-> ParseInt(AppidStr(lines[Min(found)]))]

InitDetect ==
    /\ userdata = TRUE
    /\ shortcuts = <<>>
    /\ config = ConfigOneBlock
    /\ localconfig = LocalNoApps
    /\ wf = [pc |-> "query", name |-> Foo, attempts |-> 0, output |-> NoOutput,
             ret |-> NotFound]
    /\ last = [op |-> "none", args |-> <<>>, ret |-> FALSE, conflicts |-> <<>>,
               again |-> FALSE, repeat |-> FALSE, fresh |-> FALSE]
    /\ pre = Files
    /\ calls = 0

\* a faulty variant: the loop is a "while True" that counts no attempt
DetectQueryForever ==
    /\ wf.pc = "query"
    /\ \E output \in Outputs :
          LET r == detect_query(output, wf.name)
          IN  wf' = [wf EXCEPT !.pc = IF r.returned THEN "returned" ELSE "query",
                               !.output = output,
                               !.ret = r]
    /\ UNCHANGED <<shortcuts, config, localconfig, last, pre, calls, userdata>>

\* one attempt: protontricks is queried; a match returns its identifier
DetectQuery ==
    /\ wf.pc = "query"
    /\ wf.attempts < MaxAttempts
    /\ \E output \in Outputs :
          LET r == detect_query(output, wf.name)
          IN  wf' = [wf EXCEPT !.pc = IF r.returned THEN "returned" ELSE "query",
                               !.attempts = @ + 1,
                               !.output = output,
                               !.ret = r]
    /\ UNCHANGED <<shortcuts, config, localconfig, last, pre, calls, userdata>>

\* the loop has run out: return None
DetectGiveUp ==
    /\ wf.pc = "query"
    /\ wf.attempts = MaxAttempts
    /\ wf' = [wf EXCEPT !.pc = "returned", !.ret = NotFound]
    /\ UNCHANGED <<shortcuts, config, localconfig, last, pre, calls, userdata>>

NextDetect ==
    \/ DetectQuery
    \/ DetectGiveUp

SpecDetect == InitDetect /\ [][NextDetect]_vars

\* the lines of a listing that name the shortcut: they hold the literal
\* 'Non-Steam shortcut:', the name, and both parentheses
LinesFor(lines, name) ==
    {i \in 1..Len(lines) :
        /\ \E a \in 1..Len(lines[i]) : lines[i][a] = NonSteamShortcut[1]
        /\ Contains(name, lines[i])
        /\ \E a \in 1..Len(lines[i]) : lines[i][a] = LParen
        /\ \E a \in 1..Len(lines[i]) : lines[i][a] = RParen}

\* the line reads "... (<u>)...", u being the text after its first '('
Lists(line, u) ==
    \E a \in 1..(Len(line) - 2) :
        /\ line[a] = LParen /\ line[a + 1] = Dec(u) /\ line[a + 2] = RParen
        /\ \A b \in 1..(a - 1) : line[b] # LParen

\* the query completed with return code 0, and the first line of its output
\* that names the shortcut lists the identifier u
Matches(output, name, u) ==
    /\ output.kind = "completed"
    /\ output.returncode = 0
    /\ LinesFor(output.stdout, name) # {}
    /\ \A i \in LinesFor(output.stdout, name) :
          (\A j \in LinesFor(output.stdout, name) : i <= j)
              => Lists(output.stdout[i], u)

Matched(output, name) == \E u \in ListedIds : Matches(output, name, u)

C20_WitnessFound ==
    /\ wf.pc = "returned"
    /\ wf.ret.returned
    /\ wf.ret.appid = FooId
    /\ wf.attempts > 1
    /\ wf.output = Completed(0, <<GameLine, ShortcutLine(Foo, FooId)>>)

-----------------------------------------------------------------------------
(* create_shortcut_directly_with_proton on an empty store *)

\* the call was made on a store file that held no entry
UpsertOnEmpty ==
    /\ last.op = "upsert"
    /\ last.args.avail
    /\ pre.shortcuts = <<>>

\* C22: create_shortcut_directly_with_proton(name, exe, start_dir) on a store
\* with zero entries yields a store with exactly one entry, at index "0", named
\* name, whose signed identifier is -(crc32(exe + name) & 0x7FFFFFFF) and lies
\* in -(2^31-1)..0.
C22_UpsertOnEmptyStore ==
    UpsertOnEmpty =>
        /\ Len(shortcuts) = 1
        /\ shortcuts[1].k = 0
        /\ shortcuts[1].v.AppName = last.args.name
        /\ shortcuts[1].v.appid = -And31(Crc32(last.args.exe \o last.args.name))
        /\ shortcuts[1].v.appid >= -2147483647
        /\ shortcuts[1].v.appid <= 0

\* the entry was created from a checksum whose highest bit is set
C22_Witness ==
    /\ UpsertOnEmpty
    /\ Len(shortcuts) = 1
    /\ Crc32(last.args.exe \o last.args.name).hi >= HalfLimb

-----------------------------------------------------------------------------
(* Termination: run_complete_workflow with the loop of                       *)
(* detect_actual_prefix_appid run attempt by attempt, and                    *)
(* wait_for_prefix_completion sample by sample                               *)

\* what a sample of pfx/system.reg finds: no file, a size, or an error of stat
NoFile == [kind |-> "none", size |-> 0]
Size(n) == [kind |-> "size", size |-> n]
StatError == [kind |-> "error", size |-> 0]
Samples == {NoFile, Size(0), Size(1024), Size(2048), StatError}

InitTerm ==
    /\ userdata = TRUE
    /\ shortcuts \in {Enumerate(<<>>), Enumerate(<<EntryBatchQuoted>>)}
    /\ config \in {ConfigOneBlock, ConfigTruncated}
    /\ localconfig = LocalNoApps
    /\ wf = WfIdle
    /\ last = [op |-> "none", args |-> <<>>, ret |-> FALSE, conflicts |-> <<>>,
               again |-> FALSE, repeat |-> FALSE, fresh |-> FALSE]
    /\ pre = Files
    /\ calls = 0

\* Step 8 begins: detect_actual_prefix_appid is entered
WfDetectBegin ==
    /\ wf.pc = "detect"
    /\ wf' = [pc |-> "query", name |-> wf.name, exe |-> wf.exe, dir |-> wf.dir,
              rerun |-> wf.rerun, initial_appid |-> wf.initial_appid,
              rungameid |-> wf.rungameid,
              expected_prefix_id |-> wf.expected_prefix_id, log |-> wf.log,
              attempts |-> 0, output |-> NoOutput, ret |-> NotFound]
    /\ UNCHANGED <<shortcuts, config, localconfig, last, pre, calls, userdata>>

\* Step 8 ends: actual_appid is None, or is the identifier that was listed
WfDetectEnd ==
    /\ wf.pc = "returned"
    /\ wf' = IF wf.ret.returned
             THEN [pc |-> "verify", name |-> wf.name, exe |-> wf.exe, dir |-> wf.dir,
                   rerun |-> wf.rerun, initial_appid |-> wf.ret.appid,
                   rungameid |-> wf.rungameid,
                   expected_prefix_id |-> wf.expected_prefix_id,
                   log |-> Logged("resolve", wf.ret.returned)]
             ELSE WfFailed
    /\ UNCHANGED <<shortcuts, config, localconfig, last, pre, calls, userdata>>

\* wait_for_prefix_completion(prefix_id, timeout) is entered; it reads nothing
\* but system.reg, so it is called here before any workflow has run
WaitCall ==
    \E timeout \in 0..MaxTimeout :
        /\ Begin
        /\ wf = WfIdle
        /\ wf' = [pc |-> "sample", i |-> 0, timeout |-> timeout,
                  last_size |-> 0, stable_count |-> 0, ret |-> FALSE,
                  seen |-> <<>>]
        /\ last' = Called("wait", [timeout |-> timeout], FALSE, <<>>)
        /\ UNCHANGED <<shortcuts, config, localconfig>>

\* a sample that finds no file adds to the count as an unchanged size would
CountMissing(sample, last_size, stable_count) ==
    IF sample.kind = "size" /\ sample.size # last_size THEN 0
    ELSE stable_count + 1

\* stable_count after one sample: one more when the size equals last_size,
\* zero when it differs, unchanged when system.reg does not exist
StableCount(sample, last_size, stable_count) ==
    IF sample.kind # "size" THEN stable_count
    ELSE IF sample.size = last_size THEN stable_count + 1
    ELSE 0

\* one pass of "for i in range(timeout)": the size of system.reg is compared
\* with the last one; three equal sizes in a row return True, an exception
\* returns False
WaitSample ==
    /\ wf.pc = "sample"
    /\ wf.i < wf.timeout
    /\ \E sample \in Samples :
          LET stable_count == StableCount(sample, wf.last_size, wf.stable_count)
              same == stable_count > wf.stable_count
              last_size == IF sample.kind = "size" THEN sample.size ELSE wf.last_size
          IN  wf' = IF sample.kind = "error"
                    THEN [wf EXCEPT !.pc = "waited", !.ret = FALSE,
                                    !.seen = Append(@, sample)]
                    ELSE IF same /\ stable_count >= 3
                    THEN [wf EXCEPT !.pc = "waited", !.ret = TRUE,
                                    !.stable_count = stable_count,
                                    !.seen = Append(@, sample)]
                    ELSE [wf EXCEPT !.i = @ + 1,
                                    !.stable_count = stable_count,
                                    !.last_size = last_size,
                                    !.seen = Append(@, sample)]
    /\ UNCHANGED <<shortcuts, config, localconfig, last, pre, calls, userdata>>

\* the loop has run out: return False
WaitGiveUp ==
    /\ wf.pc = "sample"
    /\ wf.i = wf.timeout
    /\ wf' = [wf EXCEPT !.pc = "waited", !.ret = FALSE]
    /\ UNCHANGED <<shortcuts, config, localconfig, last, pre, calls, userdata>>

\* the steps an invocation takes once it has begun
StepsTerm ==
    \/ WfRestart
    \/ WfLaunch
    \/ WfVerifyPrefix
    \/ WfReplace
    \/ WfDetectBegin
    \/ DetectQuery
    \/ DetectGiveUp
    \/ WfDetectEnd
    \/ WfVerifyFinal
    \/ WaitSample
    \/ WaitGiveUp

NextTerm ==
    \/ WfCreate
    \/ WaitCall
    \/ StepsTerm

\* every external call returns: a step that can be taken is taken
SpecTerm == InitTerm /\ [][NextTerm]_vars /\ WF_vars(StepsTerm)

\* an invocation is under way; it has reached its outcome
Running == wf.pc \notin {"idle", "done", "failed", "waited"}
Terminal == wf.pc \in {"done", "failed", "waited"}

\* C23: every invocation of the workflow reaches a terminal outcome (Done or
\* Failed), and so does every call of wait_for_prefix_completion; the loop of
\* detect_actual_prefix_appid makes at most 30 attempts, the loop of
\* wait_for_prefix_completion takes at most timeout samples.
C23_Termination ==
    /\ [](wf.pc \in {"query", "returned"} => wf.attempts <= MaxAttempts)
    /\ [](wf.pc \in {"sample", "waited"} => wf.i <= wf.timeout)
    /\ [](Running => <>Terminal)

\* the workflow has failed after thirty queries that listed nothing; a wait
\* has used up its samples
C23_Witness ==
    /\ wf.pc = "returned"
    /\ wf.attempts = MaxAttempts
    /\ ~wf.ret.returned

C23_WitnessWait ==
    /\ wf.pc = "waited"
    /\ wf.i = wf.timeout
    /\ wf.timeout = MaxTimeout

-----------------------------------------------------------------------------
(* The order of the steps of run_complete_workflow *)

\* the steps in the order of the code: the upsert, the restart, the launch,
\* the look for the sandbox path, the retarget, the identifier resolution
StepOrder == <<"upsert", "restart", "launch", "prefix", "retarget", "resolve">>

\* the number of steps that have returned when the workflow is at pc
StepsBefore(pc) ==
    CASE pc = "restart" -> 1
      [] pc = "launch" -> 2
      [] pc = "wait" -> 3
      [] pc = "replace" -> 4
      [] pc = "detect" -> 5
      [] pc = "verify" -> 6

\* C24: in run_complete_workflow the restart is invoked only after the upsert
\* returned success, the launch only after the restart returned success, the
\* retarget only after the sandbox path was seen to exist, the identifier
\* resolution only after the retarget succeeded; once a step has failed,
\* nothing more happens in that invocation: the next change is a new call.
\* The store is worked on by the upsert and by the retarget only.
C24_StepOrdering ==
    /\ []("log" \in DOMAIN wf =>
             /\ Len(wf.log) = StepsBefore(wf.pc)
             /\ \A i \in 1..Len(wf.log) : wf.log[i] = <<StepOrder[i], TRUE>>)
    /\ [][wf.pc = "failed" => calls' = calls + 1]_vars
    /\ [][wf.pc \in {"restart", "launch", "wait", "detect", "verify"}
          => last' = last]_vars

\* the identifier resolution is about to be attempted
C24_Witness ==
    /\ wf.pc = "detect"
    /\ wf.log = [i \in 1..5 |-> <<StepOrder[i], TRUE>>]
    /\ last.args.step = 7
    /\ last.ret

-----------------------------------------------------------------------------
(* The lookups by name: verify_shortcut_created and verify_final_shortcut *)

\* the first entry of range(len(shortcuts)) whose AppName contains the name
FirstNamed(sc, shortcut_name) ==
    ScanFirst(sc, {i \in Present(sc) :
                      Contains(shortcut_name, Get(Lookup(sc, i), "AppName", Empty))})

\* returns the appid of that entry, None when there is none or on an exception
verify_shortcut_created(sc, avail, shortcut_name) ==
    LET hit == FirstNamed(sc, shortcut_name)
    IN  IF ~avail \/ hit.kind # "found" THEN [found |-> FALSE]
        ELSE [found |-> TRUE, appid |-> Lookup(sc, hit.index).appid]

\* returns whether the Exe of that entry contains the expected path
verify_final_shortcut(sc, avail, shortcut_name, expected_exe_path) ==
    LET hit == FirstNamed(sc, shortcut_name)
    IN  IF ~avail \/ hit.kind # "found" THEN FALSE
        ELSE Contains(expected_exe_path, Get(Lookup(sc, hit.index), "Exe", Empty))

InitLookup ==
    /\ userdata \in BOOLEAN
    /\ \E vals \in InitStores :
          shortcuts = IF userdata THEN Enumerate(vals) ELSE <<>>
    /\ config = ConfigOneBlock
    /\ localconfig = LocalNoApps
    /\ wf = WfIdle
    /\ last = [op |-> "none", args |-> <<>>, ret |-> FALSE, conflicts |-> <<>>,
               again |-> FALSE, repeat |-> FALSE, fresh |-> FALSE]
    /\ pre = Files
    /\ calls = 0

VerifyCreatedCall ==
    \E name \in Names :
        LET r == verify_shortcut_created(shortcuts, userdata, name)
        IN  /\ Begin
            /\ last' = Called("verify_created", [name |-> name, avail |-> userdata],
                              r, <<>>)
            /\ UNCHANGED <<shortcuts, config, localconfig, wf>>

VerifyFinalCall ==
    \E name \in Names, exe \in FinalExes :
        LET r == verify_final_shortcut(shortcuts, userdata, name, exe)
        IN  /\ Begin
            /\ last' = Called("verify_final",
                              [name |-> name, exe |-> exe, avail |-> userdata],
                              r, <<>>)
            /\ UNCHANGED <<shortcuts, config, localconfig, wf>>

NextLookup ==
    \/ VerifyCreatedCall
    \/ VerifyFinalCall

SpecLookup == InitLookup /\ [][NextLookup]_vars

\* the positions of the entries whose AppName is the name, and of those whose
\* AppName only contains it
ExactlyNamed(sc, name) ==
    {p \in 1..Len(sc) : Get(sc[p].v, "AppName", Empty) = name}
SubstringNamed(sc, name) ==
    {p \in 1..Len(sc) : /\ Get(sc[p].v, "AppName", Empty) # name
                        /\ Contains(name, Get(sc[p].v, "AppName", Empty))}

\* a lookup was made on a store that holds an entry of exactly the name
LookedUpExact ==
    /\ last.op \in {"verify_created", "verify_final"}
    /\ last.args.avail
    /\ ExactlyNamed(shortcuts, last.args.name) # {}

\* C25 as claimed: when the store holds an entry whose AppName equals the name
\* looked up, verify_shortcut_created and verify_final_shortcut report the
\* identifier and the executable of the first such entry, also when an entry at
\* a lower index has an AppName that merely contains the name.
C25_ExactMatchPreferred ==
    LookedUpExact =>
        LET e == shortcuts[Min(ExactlyNamed(shortcuts, last.args.name))].v
        IN  IF last.op = "verify_created"
            THEN last.ret.found /\ last.ret.appid = e.appid
            ELSE last.ret = Contains(last.args.exe, Get(e, "Exe", Empty))

\* what the code does: both lookups report the first entry whose AppName
\* contains the name
C25_FirstContaining ==
    (last.op \in {"verify_created", "verify_final"} /\ last.args.avail) =>
        LET named == ExactlyNamed(shortcuts, last.args.name)
                         \cup SubstringNamed(shortcuts, last.args.name)
        IN  IF named = {}
            THEN IF last.op = "verify_created" THEN ~last.ret.found
                 ELSE last.ret = FALSE
            ELSE LET e == shortcuts[Min(named)].v
                 IN  IF last.op = "verify_created"
                     THEN last.ret.found /\ last.ret.appid = e.appid
                     ELSE last.ret = Contains(last.args.exe, Get(e, "Exe", Empty))

\* verify_shortcut_created has returned the identifier of the entry "FooBar"
\* for the name "Foo", which an entry at a higher index carries
C25_SubstringWins ==
    /\ LookedUpExact
    /\ last.op = "verify_created"
    /\ \E p \in SubstringNamed(shortcuts, last.args.name) :
          /\ p < Min(ExactlyNamed(shortcuts, last.args.name))
          /\ last.ret.appid = shortcuts[p].v.appid

-----------------------------------------------------------------------------
(* The outcome of a workflow that fails *)

\* the step at pc returns failure
FailsAt(pc) == wf.pc = pc /\ wf'.pc = "failed"

\* step 1 returns failure: the workflow fails as it is called
FailsAtCreate == wf.pc \in {"idle", "done", "failed"} /\ wf' = WfFailed /\ calls' = calls + 1

\* C26 as claimed: the outcome of a workflow that fails hard tells which phase
\* failed: the outcomes of a failure of the restart, of a missing prefix and of
\* the identifier resolution differ from the outcome of a failure of the
\* creation (and from one another).
C26_NamedFailures ==
    [][(FailsAt("restart") \/ FailsAt("wait") \/ FailsAt("detect"))
       => wf'.result # WfFailure]_vars

\* what the code does: whatever the phase, the outcome is the same tuple
C26_OneOutcome ==
    [][(FailsAtCreate \/ FailsAt("restart") \/ FailsAt("launch") \/ FailsAt("wait")
        \/ FailsAt("replace") \/ FailsAt("detect") \/ FailsAt("verify"))
       => wf'.result = <<FALSE, None, None, None>>]_vars

-----------------------------------------------------------------------------
(* The runtime-flags block of an identifier that localconfig.vdf does not hold *)

\* the call has written config.vdf and has found localconfig.vdf, a well-formed
\* file with a root block, in which no line of an "Apps" section holds the
\* identifier's key
FlagsAbsent ==
    /\ last.op = "patch"
    /\ last.args.configAvail
    /\ last.args.localAvail
    /\ PatchConfig(pre.config, last.args.appid, last.args.compat_tool).ok
    /\ pre.localconfig # <<>>
    /\ VdfLoad(pre.localconfig).ok
    /\ \A i \in 1..Len(pre.localconfig) :
          ~HasQuoted(pre.localconfig[i], ToString(ForcedSigned(last.args.appid)))

C27_WitnessNoApps ==
    /\ FlagsAbsent
    /\ BlockOf(pre.localconfig, "Apps") = {}
    /\ Len(localconfig) = Len(pre.localconfig) + 8

-----------------------------------------------------------------------------
(* The key of the runtime flags in localconfig.vdf *)

\* the signed 32-bit integer with the bits of u
Reinterpreted(u) ==
    IF u.hi < HalfLimb THEN u.hi * Limb + u.lo ELSE (u.hi - Limb) * Limb + u.lo

\* C28 as claimed: for every unsigned identifier u the key under which
\* set_compatibility_tool_complete_stl_style writes the runtime flags is the
\* two's-complement reinterpretation of u (u below 2^31, u - 2^32 from 2^31
\* on), so that key & 0xFFFFFFFF is the u that keys the compatibility mapping
\* written by the same call.
C28_FlagsKeyConversion ==
    last.op = "flags_key"
    => /\ last.ret.flags = Reinterpreted(last.args.unsigned)
       /\ generate_steam_short_id(last.ret.flags) = last.ret.mapping

\* what the code does: the highest bit is set before the reinterpretation, so
\* the key is negative for every u, and is u - 2^31 for the u below 2^31
C28_HighBitForced ==
    last.op = "flags_key"
    => LET u == last.args.unsigned
       IN  /\ last.ret.flags < 0
           /\ generate_steam_short_id(last.ret.flags)
                 = U32(HalfLimb + (u.hi % HalfLimb), u.lo)
           /\ u.hi >= HalfLimb => last.ret.flags = Reinterpreted(u)
           /\ u.hi < HalfLimb => last.ret.flags = (Reinterpreted(u) - MaxSigned) - 1

-----------------------------------------------------------------------------
(* The prefix directory that step 6 of run_complete_workflow looks for *)

\* the launch has been issued, and step 6 is about to look for the directory
\* compatdata/<expected_prefix_id>
AwaitingPrefix == wf.pc = "wait" /\ "expected_prefix_id" \in DOMAIN wf

\* C29 as claimed: the directory run_complete_workflow checks after the launch
\* is named by the unsigned form of the stored signed identifier s, the
\* decimal of s & 0xFFFFFFFF, which is also the number in the upper 32 bits of
\* the launch handle.
C29_PrefixOfUnsigned ==
    AwaitingPrefix =>
        /\ wf.expected_prefix_id = Dec(generate_steam_short_id(wf.initial_appid))
        /\ wf.rungameid.top = Wide(FALSE, generate_steam_short_id(wf.initial_appid))

\* what the code does: the directory is named by the absolute value of s, the
\* handle is made of s itself; for a negative s neither is s & 0xFFFFFFFF
C29_PrefixOfAbsolute ==
    AwaitingPrefix =>
        /\ wf.expected_prefix_id = ToString(-wf.initial_appid)
        /\ wf.rungameid.top = WideOfSigned(wf.initial_appid)
        /\ wf.initial_appid < 0
              => wf.expected_prefix_id # Dec(generate_steam_short_id(wf.initial_appid))

-----------------------------------------------------------------------------
(* The hash-based derivation: predict_appid_using_stl_algorithm and          *)
(* create_shortcut_with_stl_algorithm.  The seed is int(md5(...)[:8], 16),   *)
(* a 32-bit value; the model takes seeds around the multiples of one billion  *)
(* and at both ends of the range.                                            *)

Billion == 1000000000

\* k * 10^9 as an unsigned 32-bit value, for k in 0..4
Billions ==
    <<U32(0, 0), U32(15258, 51712), U32(30517, 37888), U32(45776, 24064),
      U32(61035, 10240)>>

\* the seed k * 10^9 + off
Seed(k, off) == U32(Billions[k + 1].hi, Billions[k + 1].lo + off)

\* seed_decimal % 1000000000, with 2^30 % 10^9 = 73741824
ModBillion(h) ==
    ((h.hi \div 16384) * 73741824
        + (((h.hi % 16384) * Limb + h.lo) % Billion)) % Billion

\* signed_appid = -(seed_decimal % 1000000000); return signed_appid & 0xFFFFFFFF
predict_appid_using_stl_algorithm(seed_decimal) ==
    generate_steam_short_id(-ModBillion(seed_decimal))

\* the entry create_shortcut_with_stl_algorithm writes
StlShortcut(name, exe, dir, appid) ==
    [AppName |-> name,
     Exe |-> Quote(exe),
     StartDir |-> Quote(dir),
     appid |-> appid,
     icon |-> Empty,
     ShortcutPath |-> Empty,
     LaunchOptions |-> Empty,
     IsHidden |-> 0,
     AllowDesktopConfig |-> 1,
     AllowOverlay |-> 1,
     openvr |-> 0,
     Devkit |-> 0,
     DevkitGameID |-> Empty,
     LastPlayTime |-> 0,
     FlatpakAppID |-> Empty,
     tags |-> NoTags,
     IsInstalled |-> 1]

\* shortcuts[str(len(shortcuts))] = new_shortcut
SetNext(sc, v) ==
    IF Len(sc) \in Keys(sc) THEN Assign(sc, Len(sc), v)
    ELSE Append(sc, [k |-> Len(sc), v |-> v])

\* "if not predicted_appid" is true of None and of 0; the result of setting the
\* compatibility tool is only logged
create_shortcut_with_stl_algorithm(sc, cfg, lc, avail, name, exe, dir, tool, seed_decimal) ==
    LET predicted_appid == predict_appid_using_stl_algorithm(seed_decimal)
        written == SetNext(sc, StlShortcut(name, exe, dir, signed_appid(predicted_appid)))
        set == set_compatibility_tool_complete_stl_style(cfg, lc, TRUE, TRUE,
                                                         predicted_appid, tool)
    IN  IF ~avail \/ predicted_appid = U32(0, 0)
        THEN [ret |-> FALSE, shortcuts |-> sc, config |-> cfg, localconfig |-> lc]
        ELSE IF tool = ""
        THEN [ret |-> TRUE, shortcuts |-> written, config |-> cfg, localconfig |-> lc]
        ELSE [ret |-> TRUE, shortcuts |-> written,
              config |-> set.config, localconfig |-> set.localconfig]

InitStl ==
    /\ userdata \in BOOLEAN
    /\ shortcuts \in {<<>>, Enumerate(<<EntryOther>>)}
    /\ userdata = FALSE => shortcuts = <<>>
    /\ config = ConfigOneBlock
    /\ localconfig = LocalNoApps
    /\ wf = WfIdle
    /\ last = [op |-> "none", args |-> <<>>, ret |-> FALSE, conflicts |-> <<>>,
               again |-> FALSE, repeat |-> FALSE, fresh |-> FALSE]
    /\ pre = Files
    /\ calls = 0

\* the seeds around the multiples of one billion, and the two ends of the range
PredictCall ==
    /\ \E k \in 0..4, off \in (-Window)..Window :
          /\ k = 0 => off >= 0
          /\ last' = Converted("predict", [k |-> k, off |-> off],
                               predict_appid_using_stl_algorithm(Seed(k, off)))
    /\ UNCHANGED <<shortcuts, config, localconfig, wf, pre, calls, userdata>>

PredictEndCall ==
    /\ \E off \in 0..Window :
          last' = Converted("predict_end", [off |-> off],
                            predict_appid_using_stl_algorithm(
                                U32(Limb - 1, Limb - 1 - off)))
    /\ UNCHANGED <<shortcuts, config, localconfig, wf, pre, calls, userdata>>

StlCreateCall ==
    \E k \in {0, 1, 4}, off \in {0, 1}, tool \in {"", "proton_experimental"} :
        LET r == create_shortcut_with_stl_algorithm(
                     shortcuts, config, localconfig, userdata, Foo,
                     ModOrganizerExe, RealDir, tool, Seed(k, off))
        IN  /\ Begin
            /\ shortcuts' = r.shortcuts
            /\ config' = r.config
            /\ localconfig' = r.localconfig
            /\ last' = Called("stl_create",
                              [name |-> Foo, k |-> k, off |-> off, tool |-> tool,
                               avail |-> userdata],
                              r.ret, <<>>)
            /\ UNCHANGED wf

NextStl ==
    \/ PredictCall
    \/ PredictEndCall
    \/ StlCreateCall

SpecStl == InitStl /\ [][NextStl]_vars

\* C30 as claimed: for every 32-bit seed h predict_appid_using_stl_algorithm
\* returns (-(h mod 10^9)) & 0xFFFFFFFF, and create_shortcut_with_stl_algorithm
\* succeeds and stores the signed identifier -(h mod 10^9), also for the seeds
\* that are multiples of one billion.
C30_HashDerivation ==
    /\ last.op = "predict"
          => last.ret = generate_steam_short_id(-(last.args.off % Billion))
    /\ last.op = "predict_end"
          \* 2^32 - 1 = 4 * 10^9 + 294967295
          => last.ret = generate_steam_short_id(-(294967295 - last.args.off))
    /\ (last.op = "stl_create" /\ last.args.avail)
          => /\ last.ret = TRUE
             /\ Len(pre.shortcuts) + 1 = Len(shortcuts)
             /\ shortcuts[Len(shortcuts)].v.AppName = last.args.name
             /\ shortcuts[Len(shortcuts)].v.appid = -(last.args.off % Billion)

\* what the code does: the seeds that are multiples of one billion give the
\* identifier 0, which create_shortcut_with_stl_algorithm takes for a failed
\* prediction: it returns False and writes nothing
C30_ZeroRefused ==
    (last.op = "stl_create" /\ last.args.avail)
    => IF last.args.off = 0
       THEN last.ret = FALSE /\ shortcuts = pre.shortcuts
       ELSE /\ last.ret = TRUE
            /\ Len(pre.shortcuts) + 1 = Len(shortcuts)
            /\ shortcuts[Len(shortcuts)].v.appid = -(last.args.off % Billion)

C30_PredictionExact ==
    /\ last.op = "predict"
          => last.ret = generate_steam_short_id(-(last.args.off % Billion))
    /\ last.op = "predict_end"
          => last.ret = generate_steam_short_id(-(294967295 - last.args.off))

-----------------------------------------------------------------------------
(* The stability signal of wait_for_prefix_completion, stated over the       *)
(* samples the call has taken (wf.seen).                                     *)

\* the sizes the call has compared: the initial last_size of 0, then the size
\* of every sample that found the file
Recorded(seen) == <<0>> \o [i \in 1..Len(SelectSeq(seen, LAMBDA x : x.kind = "size")) |-> SelectSeq(seen, LAMBDA x : x.kind = "size")[i].size]

\* the last three sizes each equalled the size recorded before them
StableAt(z) ==
    /\ Len(z) >= 4
    /\ z[Len(z)] = z[Len(z) - 1]
    /\ z[Len(z) - 1] = z[Len(z) - 2]
    /\ z[Len(z) - 2] = z[Len(z) - 3]

\* how many sizes at the end of z equalled the one before them
RECURSIVE EqualRun(_)
EqualRun(z) ==
    IF Len(z) < 2 \/ z[Len(z)] # z[Len(z) - 1] THEN 0
    ELSE 1 + EqualRun(SubSeq(z, 1, Len(z) - 1))

Waiting == wf.pc \in {"sample", "waited"}

\* what holds of the counter and of a True result, whatever ends the call
StabilityCounted ==
    /\ (wf.pc = "sample")
          => /\ wf.i = Len(wf.seen)
             /\ wf.stable_count = EqualRun(Recorded(wf.seen))
             /\ wf.stable_count < 3
             /\ wf.last_size = Recorded(wf.seen)[Len(Recorded(wf.seen))]
    /\ (wf.pc = "waited" /\ wf.ret)
          => /\ wf.seen # <<>>
             /\ wf.seen[Len(wf.seen)].kind = "size"
             /\ StableAt(Recorded(wf.seen))
             /\ \A n \in 0..(Len(wf.seen) - 1) :
                   ~StableAt(Recorded(SubSeq(wf.seen, 1, n)))

\* C31 as claimed: wait_for_prefix_completion returns True only when the size
\* of system.reg equalled the previously recorded size in three consecutive
\* samples that found the file, the counter being reset by every differing
\* size and left alone by a sample that finds no file; otherwise it returns
\* False after exactly timeout samples.
C31_StabilitySignal ==
    /\ StabilityCounted
    /\ (wf.pc = "waited" /\ ~wf.ret) => Len(wf.seen) = wf.timeout

\* C31 amended: False is returned after exactly timeout samples, or earlier by
\* the sample at which reading the size of system.reg raised.
C31_StabilityOrError ==
    /\ StabilityCounted
    /\ (wf.pc = "waited" /\ ~wf.ret)
          => \/ /\ Len(wf.seen) = wf.timeout
                /\ \A n \in 1..Len(wf.seen) : wf.seen[n].kind # "error"
             \/ /\ wf.seen # <<>>
                /\ wf.seen[Len(wf.seen)].kind = "error"
                /\ Len(wf.seen) <= wf.timeout

\* True after a size that differed, a sample without the file between equal
\* sizes, and three sizes equal to the recorded one
C31_Witness ==
    /\ wf.pc = "waited"
    /\ wf.ret
    /\ Len(wf.seen) = 5
    /\ wf.seen[1] = Size(1024)
    /\ wf.seen[3] = NoFile

\* False after timeout samples of which the last three found no file
C31_WitnessTimeout ==
    /\ wf.pc = "waited"
    /\ ~wf.ret
    /\ wf.timeout = 5
    /\ Len(wf.seen) = 5
    /\ wf.seen[2] = Size(1024)
    /\ wf.seen[3] = NoFile
    /\ wf.seen[4] = NoFile
    /\ wf.seen[5] = NoFile

-----------------------------------------------------------------------------
(* verify_prefix_creation, called on the directories the Steam client fills *)

VerifiedPrefix == last.op = "verify_prefix"

\* C32: verify_prefix_creation returns True if and only if the prefix
\* directory, pfx in it, and system.reg, user.reg and drive_c in pfx all exist;
\* the call creates and changes nothing on disk.
C32_SandboxVerification ==
    /\ [](VerifiedPrefix
            => (last.ret <=> \A part \in {"dir", "pfx", "system.reg", "user.reg",
                                          "drive_c"} : part \in last.args.prefix))
    /\ [][(last'.op = "verify_prefix" /\ last' # last)
            => /\ wf'.fs = wf.fs
               /\ wf'.fs[last'.args.id] = last'.args.prefix
               /\ Files' = Files]_vars

\* a complete prefix was verified; one that lacks only user.reg was refused
C32_Witness ==
    /\ VerifiedPrefix
    /\ last.ret
    /\ last.args.prefix = CompletePrefix

C32_WitnessRefused ==
    /\ VerifiedPrefix
    /\ ~last.ret
    /\ last.args.prefix = {"dir", "pfx", "system.reg", "drive_c"}

-----------------------------------------------------------------------------
(* The store operations together: create_shortcut_directly and               *)
(* cleanup_old_batch_shortcuts, and the calls of the six operations that      *)
(* write shortcuts.vdf.                                                      *)

\* appid = -(hash_value & 0x7FFFFFFF)
DirectAppid(hash_value) == -((hash_value.hi % 32768) * Limb + hash_value.lo)

\* create_shortcut_directly: the entry is written under str(len(shortcuts))
create_shortcut_directly(sc, avail, name, exe, dir, hash_value) ==
    LET new_shortcut ==
            Update(StlShortcut(name, exe, dir, DirectAppid(hash_value)),
                   [CompatTool |-> ProtonExperimental])
    IN  IF ~avail THEN [ret |-> FALSE, shortcuts |-> sc]
        ELSE [ret |-> TRUE, shortcuts |-> SetNext(sc, new_shortcut)]

\* name == shortcut_name and 'prefix_creation_' in exe and exe.endswith('.bat')
CleanupMatches(e, name) ==
    /\ Get(e, "AppName", Empty) = name
    /\ Contains(Marker, Get(e, "Exe", Empty))
    /\ EndsWith(Get(e, "Exe", Empty), DotBat)

\* a removal that leaves the kept entries under the keys they had
RemoveKeepingKeys(sc, remove) == SelectSeq(sc, LAMBDA x : x.k \notin remove)

\* new_shortcuts[str(new_index)] = shortcuts[str(i)] for the indices kept
RemoveIndices(sc, remove) ==
    LET kept == {i \in RangeKeys(sc) : i \notin remove}
        Nth(n) == CHOOSE i \in kept : Cardinality({j \in kept : j < i}) = n - 1
    IN  Enumerate([n \in 1..Cardinality(kept) |-> Lookup(sc, Nth(n))])

\* cleanup_old_batch_shortcuts: a lookup that raises is answered with False,
\* nothing to remove with True and no write
cleanup_old_batch_shortcuts(sc, avail, name) ==
    LET indices_to_remove == {i \in Present(sc) : CleanupMatches(Lookup(sc, i), name)}
    IN  IF ~avail \/ \E i \in RangeKeys(sc) : KeyErrorAt(sc, i)
        THEN [ret |-> FALSE, shortcuts |-> sc]
        ELSE IF indices_to_remove = {} THEN [ret |-> TRUE, shortcuts |-> sc]
        ELSE [ret |-> TRUE, shortcuts |-> RemoveIndices(sc, indices_to_remove)]

InitStore ==
    /\ userdata \in BOOLEAN
    /\ \E vals \in InitStores :
          shortcuts = IF userdata THEN Enumerate(vals) ELSE <<>>
    /\ config = ConfigOneBlock
    /\ localconfig = LocalNoApps
    /\ wf = WfIdle
    /\ last = [op |-> "none", args |-> <<>>, ret |-> FALSE, conflicts |-> <<>>,
               again |-> FALSE, repeat |-> FALSE, fresh |-> FALSE]
    /\ pre = Files
    /\ calls = 0

\* the md5 seed of (name, exe) is one of three values
DirectCall ==
    \E name \in CallNames, exe \in RetargetExes, dir \in FinalDirs :
        \E hash_value \in {U32(0, 0), U32(15258, 51713), U32(Limb - 1, Limb - 1)} :
            LET avail == userdata
                r == create_shortcut_directly(shortcuts, avail, name, exe, dir,
                                              hash_value)
            IN  /\ Begin
                /\ shortcuts' = r.shortcuts
                /\ last' = Called("direct", StoreArgs(name, exe, dir, avail), r.ret, <<>>)
                /\ UNCHANGED <<config, localconfig, wf>>

CleanupCall ==
    \E name \in CallNames :
        LET avail == userdata
            r == cleanup_old_batch_shortcuts(shortcuts, avail, name)
        IN  /\ Begin
            /\ shortcuts' = r.shortcuts
            /\ last' = Called("cleanup", [name |-> name, avail |-> avail], r.ret, <<>>)
            /\ UNCHANGED <<config, localconfig, wf>>

NextStore ==
    \/ UpsertCall
    \/ DirectCall
    \/ StlCreateCall
    \/ ReplaceCall
    \/ ModifyFinalCall
    \/ CleanupCall

SpecStore == InitStore /\ [][NextStore]_vars

\* the keys are 0 .. n-1, in the order of the entries
Sequential(sc) == \A p \in 1..Len(sc) : sc[p].k = p - 1

RECURSIVE IsSubseq(_, _)
IsSubseq(a, b) ==
    IF a = <<>> THEN TRUE
    ELSE IF b = <<>> THEN FALSE
    ELSE IF Head(a) = Head(b) THEN IsSubseq(Tail(a), Tail(b))
    ELSE IsSubseq(a, Tail(b))

\* the entry b is the entry a, possibly with fields an operation rewrote
SameEntry(a, b) ==
    /\ Get(a, "AppName", Empty) = Get(b, "AppName", Empty)
    /\ Get(a, "icon", Empty) = Get(b, "icon", Empty)

\* no entry was removed and the entries kept their places, or the entries left
\* are entries of before, unchanged and in the order they had
OrderKept ==
    LET b == Values(shortcuts)
        a == Values(shortcuts')
    IN  IF Len(a) >= Len(b)
        THEN \A i \in 1..Len(b) : SameEntry(a[i], b[i])
        ELSE IsSubseq(a, b)

\* C33: the keys of the store are 0 .. n-1 at the start; after any sequence of
\* create_shortcut_directly_with_proton, create_shortcut_directly,
\* create_shortcut_with_stl_algorithm, replace_shortcut_with_final_exe,
\* modify_shortcut_to_final_exe and cleanup_old_batch_shortcuts they are
\* 0 .. m-1 for the new number of entries m, and the entries that remain are in
\* the order they had.
C33_SequentialIndex ==
    /\ [](Sequential(shortcuts))
    /\ [][OrderKept]_vars

\* a cleanup has removed the first entry of a store whose second entry stayed;
\* after it an entry was added at the end
C33_Witness ==
    /\ last.op = "cleanup"
    /\ last.ret
    /\ Len(pre.shortcuts) = 2
    /\ Len(shortcuts) = 1
    /\ shortcuts[1].v = pre.shortcuts[2].v
    /\ shortcuts[1].k = 0

C33_WitnessAppend ==
    /\ last.op = "direct"
    /\ calls = 2
    /\ Len(pre.shortcuts) = 1
    /\ Len(shortcuts) = 2
    /\ shortcuts[2].k = 1

-----------------------------------------------------------------------------
(* cleanup_old_batch_shortcuts against the intermediate entries that          *)
(* modify_shortcut_to_final_exe recognises                                   *)

CleanedUp == last.op = "cleanup" /\ last.args.avail

\* C34 as claimed: cleanup_old_batch_shortcuts(N) removes exactly the entries
\* named N whose Exe contains 'prefix_creation_' and ends with '.bat', with or
\* without a closing quote (the entries modify_shortcut_to_final_exe takes for
\* intermediate), and keeps every other entry unchanged.
C34_CleanupIntermediate ==
    CleanedUp
    => /\ last.ret
       /\ Values(shortcuts) =
             SelectSeq(Values(pre.shortcuts),
                       LAMBDA e : ~IsBatchShortcut(e, last.args.name))

\* what the code does: only an Exe that ends with '.bat' itself is removed; an
\* entry whose quoted Exe ends with '.bat"' stays
C34_CleanupUnquotedOnly ==
    CleanedUp
    => /\ last.ret
       /\ Values(shortcuts) =
             SelectSeq(Values(pre.shortcuts),
                       LAMBDA e : ~(/\ Get(e, "AppName", Empty) = last.args.name
                                    /\ Contains(Marker, Get(e, "Exe", Empty))
                                    /\ EndsWith(Get(e, "Exe", Empty), DotBat)))

\* a cleanup has left a quoted bootstrap entry of the name in the store
C34_QuotedSurvives ==
    /\ CleanedUp
    /\ \E p \in 1..Len(shortcuts) : shortcuts[p].v = EntryBatchQuoted

-----------------------------------------------------------------------------
(* create_shortcut_directly_with_proton followed by                          *)
(* modify_shortcut_to_final_exe                                              *)

\* modify_shortcut_to_final_exe is called for the name that the call before
\* it, a successful create_shortcut_directly_with_proton, was called for
RetargetAfterUpsert ==
    /\ last.op = "upsert"
    /\ last.ret
    /\ last'.op = "modify_final"
    /\ last'.args.name = last.args.name

\* C35 as claimed: after create_shortcut_directly_with_proton has created the
\* entry named N pointing at its bootstrap artifact, a following
\* modify_shortcut_to_final_exe(N, final_exe, final_dir) finds the entry,
\* succeeds, and leaves its Exe equal to the quoted final executable.
C35_CreateThenRetarget ==
    [][RetargetAfterUpsert
        => /\ last'.ret
           /\ \E p \in 1..Len(shortcuts') :
                 /\ Get(shortcuts'[p].v, "AppName", Empty) = last'.args.name
                 /\ Get(shortcuts'[p].v, "Exe", Empty) = Quote(last'.args.exe)]_vars

\* what the code does: the artifact is "temp_prefix_creation.bat", in which the
\* marker 'prefix_creation_' does not occur, so the retarget finds no entry,
\* returns False and leaves the store as it was
C35_RetargetFindsNothing ==
    [][RetargetAfterUpsert
        => /\ ~last'.ret
           /\ shortcuts' = shortcuts
           /\ \A p \in 1..Len(shortcuts) :
                 Get(shortcuts[p].v, "AppName", Empty) = last.args.name
                 => Get(shortcuts[p].v, "Exe", Empty) = Quote(BatchPath)]_vars

\* a retarget has failed on a store holding the entry the upsert created
C35_RetargetRefused ==
    /\ last.op = "modify_final"
    /\ ~last.ret
    /\ last.args.avail
    /\ calls = 2
    /\ \E p \in 1..Len(shortcuts) :
          /\ Get(shortcuts[p].v, "AppName", Empty) = last.args.name
          /\ Get(shortcuts[p].v, "Exe", Empty) = Quote(BatchPath)

-----------------------------------------------------------------------------
(* What is not found: the section of config.vdf, the entry of a name *)

\* the lines of the file that hold "CompatToolMapping"
SectionLines(lines) == {i \in 1..Len(lines) : HasQuoted(lines[i], "CompatToolMapping")}

\* line j closes the section that line i opens: it holds a closing brace, and
\* from the line after i to j as many lines close a brace as open one
ClosesSection(lines, i, j) ==
    /\ HasClose(lines[j])
    /\ Cardinality({n \in (i + 1)..j : HasOpen(lines[n])})
         = Cardinality({n \in (i + 1)..j : HasClose(lines[n])})

\* the file has no section, or nothing closes the first one
SectionNotFound(lines) ==
    \/ SectionLines(lines) = {}
    \/ LET i == CHOOSE n \in SectionLines(lines) : \A m \in SectionLines(lines) : n <= m
       IN  \A j \in (i + 1)..Len(lines) : ~ClosesSection(lines, i, j)

\* the entries of the store before the call that the operation looks for
Matching ==
    {p \in 1..Len(pre.shortcuts) :
        IF last.op = "modify_final"
        THEN IsBatchShortcut(pre.shortcuts[p].v, last.args.name)
        ELSE Get(pre.shortcuts[p].v, "AppName", Empty) = last.args.name}

\* C36: when config.vdf has no "CompatToolMapping" section, or the closing
\* brace of the section cannot be found, set_compatibility_tool_complete_stl_style
\* returns False and changes neither config.vdf nor localconfig.vdf; a retarget
\* or a CompatTool update for a name that no entry matches returns False
\* without writing shortcuts.vdf.
C36_SectionNotFound ==
    /\ (last.op = "patch" /\ SectionNotFound(pre.config))
          => /\ ~last.ret
             /\ config = pre.config
             /\ localconfig = pre.localconfig
    /\ (last.op \in {"replace", "modify_final", "set_compatool"} /\ Matching = {})
          => /\ ~last.ret
             /\ shortcuts = pre.shortcuts

\* the call was made on a file without the section; on a file whose section
\* is not closed; a retarget found no entry in a store that holds entries
C36_Witness ==
    /\ last.op = "patch"
    /\ last.args.configAvail
    /\ last.args.localAvail
    /\ pre.config = ConfigNoMapping
    /\ ~last.ret

C36_WitnessTruncated ==
    /\ last.op = "patch"
    /\ last.args.configAvail
    /\ pre.config = ConfigTruncated
    /\ SectionLines(pre.config) # {}
    /\ ~last.ret

C36_WitnessNoEntry ==
    /\ last.op = "set_compatool"
    /\ Len(pre.shortcuts) = 1
    /\ Matching = {}
    /\ ~last.ret

-----------------------------------------------------------------------------
(* The two files of set_compatibility_tool_complete_stl_style *)

PatchFailed == last.op = "patch" /\ ~last.ret

\* C37 as claimed: whenever set_compatibility_tool_complete_stl_style returns
\* False, in particular when localconfig.vdf cannot be located or has no
\* closing brace, config.vdf has the content it had before the call.
C37_AllOrNothing == PatchFailed => config = pre.config

\* what the code does: config.vdf is written before localconfig.vdf is looked
\* for, so a call that fails in its second step leaves the new mapping in
\* config.vdf and localconfig.vdf as it was
C37_ConfigWrittenFirst ==
    PatchFailed
    => /\ localconfig = pre.localconfig
       /\ \/ config = pre.config
          \/ /\ last.args.configAvail
             /\ ~SectionNotFound(pre.config)
             /\ config = PatchConfig(pre.config, last.args.appid,
                                     last.args.compat_tool).lines
             /\ \/ ~last.args.localAvail
                \/ ~PatchLocalConfig(pre.localconfig,
                                     ForcedSigned(last.args.appid)).ok

\* a failed call has added the mapping to config.vdf: localconfig.vdf could
\* not be located; localconfig.vdf has no closing brace
C37_HalfWritten ==
    /\ PatchFailed
    /\ ~last.args.localAvail
    /\ pre.config = ConfigOneBlock
    /\ config # pre.config

C37_HalfWrittenNoBrace ==
    /\ PatchFailed
    /\ last.args.localAvail
    /\ pre.localconfig = LocalEmpty
    /\ config # pre.config

-----------------------------------------------------------------------------
(* A create_shortcut_directly_with_proton that returns False *)

\* the call, made directly or as step 1 of run_complete_workflow, has failed
CreateFailed ==
    /\ ~last.ret
    /\ \/ last.op = "upsert"
       \/ last.op = "workflow" /\ last.args.step = 1 /\ wf.pc = "failed"

\* C38 as claimed: whenever create_shortcut_directly_with_proton returns False
\* (the workflow then ends in Failed(create)), shortcuts.vdf has the content it
\* had before the call, also when it is set_proton_version_for_shortcut that
\* failed.
C38_FailedCreateUntouched == CreateFailed => shortcuts = pre.shortcuts

\* what the code does: shortcuts.vdf is written before the mapping; when the
\* mapping fails the entry has been written and False is returned
C38_StoreWrittenFirst ==
    CreateFailed
    => /\ config = pre.config
       /\ shortcuts = IF last.args.avail
                      THEN Enumerate(UpsertList(Values(pre.shortcuts),
                                                last.args.exe, last.args.name))
                      ELSE pre.shortcuts

\* the first step of a workflow has failed on an empty store and a config.vdf
\* that does not parse, and has left the new entry in the store
C38_EntryLeftBehind ==
    /\ CreateFailed
    /\ last.op = "workflow"
    /\ pre.shortcuts = <<>>
    /\ pre.config = ConfigTruncated
    /\ Len(shortcuts) = 1
    /\ Get(shortcuts[1].v, "AppName", Empty) = last.args.name

-----------------------------------------------------------------------------
(* What a successful entry point returns *)

Succeeded == Returned /\ wf.result[1] = TRUE

\* step 9 of run_complete_workflow ends the workflow in success
VerifiedFinal == wf.pc = "verify" /\ wf'.pc = "done"

\* C39 as claimed: whenever run_complete_workflow, run_working_workflow or
\* continue_workflow_after_conflict_resolution returns success, the prefix
\* path it returns is not None and names a directory that was seen to exist,
\* and the identifier it returns is not None.
C39_SuccessUsable ==
    /\ [](Succeeded
            => /\ wf.result[2] # None
               /\ wf.result[3] \in [hi : 0..(Limb - 1), lo : 0..(Limb - 1)])
    /\ [][VerifiedFinal
            => /\ "dir" \in wf.fs[Dec(wf.initial_appid)]
               /\ wf'.result[2] = CompatdataPath(Dec(wf.initial_appid))]_vars

\* what the code does: the success of run_complete_workflow carries the path
\* of a verified prefix; the two other entry points return whatever
\* get_prefix_path answered, None when the directory does not exist
C39_CompleteWorkflowUsable ==
    /\ []((Succeeded /\ last.op = "workflow") => wf.result[2] # None)
    /\ [](Succeeded => wf.result[3] \in [hi : 0..(Limb - 1), lo : 0..(Limb - 1)])
    /\ [][VerifiedFinal
            => /\ wf.fs[Dec(wf.initial_appid)] = CompletePrefix
               /\ wf'.result[2] = CompatdataPath(Dec(wf.initial_appid))]_vars

\* run_working_workflow has returned success with no prefix path; so has
\* continue_workflow_after_conflict_resolution
C39_SuccessWithoutPath ==
    /\ Succeeded
    /\ last.op = "working"
    /\ wf.result[2] = None

C39_ContinueWithoutPath ==
    /\ Succeeded
    /\ last.op = "continue"
    /\ wf.result[2] = None


====
